---- MODULE Spec2Model ----
(***************************************************************************)
(* A model of quasoft/pgconf: the generic line tokenizer and buffer editor *)
(* (package generic), and the postgresql.conf and pg_hba.conf layers       *)
(* (packages conf and hba) built on it.                                    *)
(*                                                                         *)
(* The buffer is a sequence of bytes.  A byte is written as a one-element  *)
(* string; the two bytes of the UTF-8 encoding of U+00E9 are written "C3"  *)
(* and "A9".  Offsets are 0-based byte offsets, as in the Go code.         *)
(***************************************************************************)
EXTENDS Integers, Sequences, FiniteSets, TLC

VARIABLES conf,     \* generic.Conf.conf: the whole configuration text
          params,   \* generic.Conf.params: the dialect
          held,     \* a *Row the caller still holds from an earlier call
          last,     \* the last call made: its arguments and what it returned
          fault,    \* TRUE once a call has aborted with a run-time panic
          initial,  \* the text the Conf was constructed with
          written,  \* lower-cased key -> raw value last given to SetRawK
          nops,     \* number of calls made so far
          arg       \* the string argument of the calls on a value (Quote, Dequote)

vars == <<conf, params, held, last, fault, initial, written, nops, arg>>

-----------------------------------------------------------------------------
(* Bytes and runes *)

NL == "\n"
BS == "\\"
SQ == "'"
DQ == "\""
LeadByte == "C3"
ContByte == "A9"
RuneE9 == "U+00E9"
RuneError == "U+FFFD"
NoRune == "U+0000"

\* Go slice expression s[a:b] on a string (0-based, half open).
Slice(s, a, b) == SubSeq(s, a + 1, b)

\* s[a:b] panics unless 0 <= a <= b <= len(s).
SliceOK(s, a, b) == 0 <= a /\ a <= b /\ b <= Len(s)

\* The width in bytes of the rune that `for i, r := range line` decodes at
\* byte i: a lead byte followed by its continuation byte is one rune of two
\* bytes; a lone lead or continuation byte decodes as RuneError, width 1.
RuneWidth(line, i) ==
  IF line[i + 1] = LeadByte /\ i + 2 <= Len(line) /\ line[i + 2] = ContByte
  THEN 2 ELSE 1

RuneAt(line, i) ==
  IF line[i + 1] = LeadByte
  THEN (IF RuneWidth(line, i) = 2 THEN RuneE9 ELSE RuneError)
  ELSE IF line[i + 1] = ContByte THEN RuneError
  ELSE line[i + 1]

\* strings.ToLower on the bytes the model uses.
LowerByte(b) ==
  CASE b = "A" -> "a"
    [] b = "B" -> "b"
    [] b = "T" -> "t"
    [] b = "O" -> "o"
    [] OTHER -> b

ToLower(s) == [i \in 1..Len(s) |-> LowerByte(s[i])]

-----------------------------------------------------------------------------
(* Dialects *)

HbaParams ==
  [Whitespace |-> {" ", "\t", "\r"},
   DefaultDelim |-> <<"\t">>,
   Quotes |-> {DQ, SQ},
   BackslashEscapedQuotes |-> TRUE,
   DefaultQuote |-> DQ,
   InlineComment |-> "#",
   AlwaysQuoteStrings |-> FALSE]

ConfParams ==
  [Whitespace |-> {" ", "\t", "\r", "="},
   DefaultDelim |-> <<" ", "=", " ">>,
   Quotes |-> {DQ, SQ},
   BackslashEscapedQuotes |-> TRUE,
   DefaultQuote |-> SQ,
   InlineComment |-> "#",
   AlwaysQuoteStrings |-> TRUE]

Dialects == {ConfParams, HbaParams}

-----------------------------------------------------------------------------
(* Rows and tokens *)

Token(s, e) == [Start |-> s, End |-> e]

NilRow == [nil |-> TRUE, tokens |-> <<>>]

newRow == [nil |-> FALSE, tokens |-> <<>>]

ColCount(row) == Len(row.tokens)

HasColumn(row, col) == col >= 0 /\ col < Len(row.tokens)

\* Token.ValueSize: the size, or an error for an unset or inverted token.
ValueSizeErr(t) == t.Start = -1 \/ t.End = -1 \/ t.Start > t.End

ValueSize(t) == IF ValueSizeErr(t) THEN 0 ELSE t.End - t.Start

-----------------------------------------------------------------------------
(* parseLine *)

ParseInit ==
  [pos |-> -1, insideQuote |-> FALSE, expectedQuote |-> {}, lastRune |-> NoRune,
   start |-> -1, end |-> -1, tokens |-> <<>>]

\* A loop body in which every quote character of the dialect closes a
\* quoted value, whichever character opened it.
ParseRuneAnyQuoteCloses(p, offset, i, r, st) ==
  LET pos == offset + i
      isWhitespace == r \in p.Whitespace
      isQuote == r \in p.Quotes
  IN
  IF st.start > -1
  THEN LET toggles == isQuote /\ (~p.BackslashEscapedQuotes \/ st.lastRune # BS)
           inside == IF toggles THEN ~st.insideQuote ELSE st.insideQuote
           closes == isWhitespace /\ ~inside
       IN [pos |-> pos,
           insideQuote |-> inside,
           expectedQuote |-> IF toggles
                             THEN (IF inside THEN {r} ELSE p.Quotes)
                             ELSE st.expectedQuote,
           lastRune |-> r,
           start |-> IF closes THEN -1 ELSE st.start,
           end |-> -1,
           tokens |-> IF closes THEN Append(st.tokens, Token(st.start, pos))
                      ELSE st.tokens]
  ELSE IF isWhitespace
       THEN [st EXCEPT !.pos = pos]
       ELSE [st EXCEPT !.pos = pos,
                       !.start = pos,
                       !.insideQuote = IF isQuote THEN TRUE ELSE @,
                       !.expectedQuote = IF isQuote THEN {r} ELSE @,
                       !.lastRune = r]

\* One iteration of the loop body for the rune r at byte i.
ParseRune(p, offset, i, r, st) ==
  LET pos == offset + i
      isWhitespace == r \in p.Whitespace
      isQuote == r \in st.expectedQuote
  IN
  IF st.start > -1
  THEN LET toggles == isQuote /\ (~p.BackslashEscapedQuotes \/ st.lastRune # BS)
           inside == IF toggles THEN ~st.insideQuote ELSE st.insideQuote
           expected == IF toggles
                       THEN (IF inside THEN {r} ELSE p.Quotes)
                       ELSE st.expectedQuote
           closes == isWhitespace /\ ~inside
       IN [pos |-> pos,
           insideQuote |-> inside,
           expectedQuote |-> expected,
           lastRune |-> r,
           start |-> IF closes THEN -1 ELSE st.start,
           end |-> -1,
           tokens |-> IF closes THEN Append(st.tokens, Token(st.start, pos))
                      ELSE st.tokens]
  ELSE IF isWhitespace
       THEN [st EXCEPT !.pos = pos]
       ELSE [st EXCEPT !.pos = pos,
                       !.start = pos,
                       !.insideQuote = IF isQuote THEN TRUE ELSE @,
                       !.expectedQuote = IF isQuote THEN {r} ELSE @,
                       !.lastRune = r]

\* The loop of parseLine from byte i on, in the state st.  (The loop state
\* is bound by a quantifier so that each iteration is evaluated once.)
RECURSIVE ParseLoop(_, _, _, _, _)
ParseLoop(p, line, offset, from, state) ==
  LET Iterate(i, st) ==
        IF i >= Len(line) THEN st
        ELSE IF RuneAt(line, i) = p.InlineComment \/ RuneAt(line, i) = NL THEN st
        ELSE ParseLoop(p, line, offset, i + RuneWidth(line, i),
                       ParseRune(p, offset, i, RuneAt(line, i), st))
  IN CHOOSE res \in {Iterate(i, st) : i \in {from}, st \in {state}} : TRUE

\* The iterations of the loop of parseLine from byte i on: for each rune the
\* byte it starts at, the rune, and the loop state before and after it.
RECURSIVE ParseSteps(_, _, _, _, _)
ParseSteps(p, line, offset, from, state) ==
  LET Iterate(i, st) ==
        IF i >= Len(line) THEN <<>>
        ELSE IF RuneAt(line, i) = p.InlineComment \/ RuneAt(line, i) = NL THEN <<>>
        ELSE LET after == CHOOSE a \in {ParseRune(p, offset, i, RuneAt(line, i), st)} : TRUE
             IN <<[i |-> i, r |-> RuneAt(line, i), before |-> st, after |-> after]>>
                  \o ParseSteps(p, line, offset, i + RuneWidth(line, i), after)
  IN CHOOSE res \in {Iterate(i, st) : i \in {from}, st \in {state}} : TRUE

\* A last column closed at the start of its last character.
LastEndAtPos(st) == st.pos

\* The end of the last column when the loop left it open.
LastEnd(st) == st.pos + 1

\* What parseLine returns once the loop has ended in the state st.
ParseResult(st) ==
  LET tokens == IF st.start > -1 /\ st.end = -1
                THEN Append(st.tokens, Token(st.start, LastEnd(st)))
                ELSE st.tokens
  IN [row |-> [nil |-> FALSE, tokens |-> tokens],
      err |-> IF st.start = -1 /\ Len(tokens) = 0 THEN "ErrEmptyLine" ELSE "nil"]

\* parseLine: [row, err].
parseLine(p, line, offset) ==
  CHOOSE res \in
    {ParseResult(st) :
       st \in {ParseLoop(p, line, offset, 0,
                         [ParseInit EXCEPT !.expectedQuote = p.Quotes])}} : TRUE

-----------------------------------------------------------------------------
(* Raw and SetRaw *)

\* The checks of Raw and SetRaw without the one on a value size of 0.
TokenErrWithoutSizeCheck(row, col) ==
  IF row.nil THEN "nil row"
  ELSE IF ~HasColumn(row, col) THEN "invalid column"
  ELSE IF ValueSizeErr(row.tokens[col + 1]) THEN "invalid token"
  ELSE "nil"

\* The error Raw and SetRaw return before touching the buffer, or "nil".
TokenErr(row, col) ==
  IF row.nil THEN "nil row"
  ELSE IF ~HasColumn(row, col) THEN "invalid column"
  ELSE IF ValueSizeErr(row.tokens[col + 1]) THEN "invalid token"
  ELSE IF ValueSize(row.tokens[col + 1]) <= 0 THEN "empty size"
  ELSE "nil"

\* Raw: [err, fault, out].  fault: the slice expression panics.
Raw(buf, row, col) ==
  LET err == TokenErr(row, col) IN
  IF err # "nil" THEN [err |-> err, fault |-> FALSE, out |-> <<>>]
  ELSE LET t == row.tokens[col + 1]
           offset == t.Start
           size == ValueSize(t)
       IN IF ~SliceOK(buf, offset, offset + size)
          THEN [err |-> "nil", fault |-> TRUE, out |-> <<>>]
          ELSE [err |-> "nil", fault |-> FALSE, out |-> Slice(buf, offset, offset + size)]

\* A splice that resumes one byte late: c.conf[offset+oldSize+1:].
SpliceDropsNextByte(buf, offset, oldSize, value) ==
  Slice(buf, 0, offset) \o value \o SubSeq(buf, offset + oldSize + 2, Len(buf))

\* The buffer after c.conf[:offset] + value + c.conf[offset+oldSize:].
Splice(buf, offset, oldSize, value) ==
  Slice(buf, 0, offset) \o value \o Slice(buf, offset + oldSize, Len(buf))

\* A SetRaw that inserts the value and leaves the old one in place:
\* c.conf[:offset] + value + c.conf[offset:].
SetRawKeepsOldValue(buf, row, col, value) ==
  IF TokenErr(row, col) # "nil"
  THEN [err |-> TokenErr(row, col), fault |-> FALSE, conf |-> buf]
  ELSE IF ~SliceOK(buf, 0, row.tokens[col + 1].Start)
  THEN [err |-> "nil", fault |-> TRUE, conf |-> buf]
  ELSE [err |-> "nil", fault |-> FALSE,
        conf |-> Splice(buf, row.tokens[col + 1].Start, 0, value)]

\* SetRaw: [err, fault, conf].
SetRaw(buf, row, col, value) ==
  LET err == TokenErr(row, col) IN
  IF err # "nil" THEN [err |-> err, fault |-> FALSE, conf |-> buf]
  ELSE LET t == row.tokens[col + 1]
           offset == t.Start
           oldSize == ValueSize(t)
       IN IF ~SliceOK(buf, 0, offset) \/ ~SliceOK(buf, offset + oldSize, Len(buf))
          THEN [err |-> "nil", fault |-> TRUE, conf |-> buf]
          ELSE [err |-> "nil", fault |-> FALSE, conf |-> Splice(buf, offset, oldSize, value)]

-----------------------------------------------------------------------------
(* LookupRow *)

\* bufio.Reader.ReadString('\n') on the text from byte `offset` on: the index
\* (0-based, exclusive) just after the first line terminator, or 0 when the
\* rest of the text holds none and the read ends with io.EOF.
LineEnd(buf, offset) ==
  IF \E i \in (offset + 1)..Len(buf) : buf[i] = NL
  THEN CHOOSE i \in (offset + 1)..Len(buf) :
         buf[i] = NL /\ \A j \in (offset + 1)..(i - 1) : buf[j] # NL
  ELSE 0

\* The key comparison of LookupRow:
\*   err == nil && rowKey == key || (ignoreCase && ToLower(rowKey) == ToLower(key))
KeyMatches(rk, key, ignoreCase) ==
  (rk.err = "nil" /\ rk.out = key) \/ (ignoreCase /\ ToLower(rk.out) = ToLower(key))

\* The line ReadString returns at `offset`, given LineEnd's answer le.
ReadLine(buf, offset, le) ==
  IF le = 0 THEN Slice(buf, offset, Len(buf)) ELSE Slice(buf, offset, le)

RECURSIVE LookupLoop(_, _, _, _, _, _)
LookupLoop(buf, p, keyCol, key, ignoreCase, from) ==
  LET Iterate(offset, le, pr) ==
        LET errRead == le = 0
            endOfLine == offset + Len(ReadLine(buf, offset, le))
            rk == Raw(buf, pr.row, keyCol)
        IN
        IF pr.err = "nil" /\ HasColumn(pr.row, keyCol) /\ rk.fault
        THEN [row |-> NilRow, next |-> 0, err |-> "nil", fault |-> TRUE]
        ELSE IF pr.err = "nil" /\ HasColumn(pr.row, keyCol)
                  /\ KeyMatches(rk, key, ignoreCase)
        THEN [row |-> pr.row, next |-> endOfLine, err |-> "nil", fault |-> FALSE]
        ELSE IF errRead
        THEN [row |-> NilRow, next |-> 0, err |-> "ErrKeyNotFound", fault |-> FALSE]
        ELSE LookupLoop(buf, p, keyCol, key, ignoreCase, endOfLine)
  IN CHOOSE res \in
       {Iterate(offset, LineEnd(buf, offset),
                parseLine(p, ReadLine(buf, offset, LineEnd(buf, offset)), offset)) :
          offset \in {from}} : TRUE

\* LookupRow: [row, next, err, fault].  c.conf[offset:] panics for an offset
\* outside [0, len(c.conf)].
LookupRow(buf, p, keyCol, key, ignoreCase, offset) ==
  IF ~SliceOK(buf, offset, Len(buf))
  THEN [row |-> NilRow, next |-> 0, err |-> "nil", fault |-> TRUE]
  ELSE LookupLoop(buf, p, keyCol, key, ignoreCase, offset)

-----------------------------------------------------------------------------
(* Quoting *)

HasPrefixAt(s, i, old) ==
  i + Len(old) - 1 <= Len(s) /\ SubSeq(s, i, i + Len(old) - 1) = old

\* strings.Replace(s, old, new, -1) for a non-empty old: the non-overlapping
\* occurrences of old, found left to right from index i (1-based) on.
RECURSIVE ReplaceFrom(_, _, _, _)
ReplaceFrom(s, from, old, new) ==
  LET Iterate(i) ==
        IF i > Len(s) THEN <<>>
        ELSE IF HasPrefixAt(s, i, old)
        THEN new \o ReplaceFrom(s, i + Len(old), old, new)
        ELSE <<s[i]>> \o ReplaceFrom(s, i + 1, old, new)
  IN CHOOSE res \in {Iterate(i) : i \in {from}} : TRUE

Replace(s, old, new) == ReplaceFrom(s, 1, old, new)

HasQuotesOrWhitespace(p, value) ==
  \E i \in 1..Len(value) : value[i] \in p.Whitespace \/ value[i] \in p.Quotes

EscapeQuotes(value, quote) == Replace(value, <<quote>>, <<quote, quote>>)

\* An UnescapeQuotes that collapses the doubled quotes of every quote
\* character of the dialect, not of the enclosing one only.
UnescapeQuotesOfAnyQuote(p, value, quote) ==
  LET other == CHOOSE o \in p.Quotes : o # quote
      both == Replace(Replace(value, <<quote, quote>>, <<quote>>),
                      <<other, other>>, <<other>>)
  IN IF p.BackslashEscapedQuotes
     THEN Replace(both, <<BS, quote>>, <<quote>>)
     ELSE both

UnescapeQuotes(p, value, quote) ==
  IF p.BackslashEscapedQuotes
  THEN Replace(Replace(value, <<quote, quote>>, <<quote>>), <<BS, quote>>, <<quote>>)
  ELSE Replace(value, <<quote, quote>>, <<quote>>)

\* A Quote that encloses the value as it is.
QuoteWithoutDoubling(p, value) == <<p.DefaultQuote>> \o value \o <<p.DefaultQuote>>

Quote(p, value) ==
  <<p.DefaultQuote>> \o EscapeQuotes(value, p.DefaultQuote) \o <<p.DefaultQuote>>

\* Dequote cutting value[1:len(value)]: the closing quote is kept.
DequoteKeepsClosingQuote(p, value) ==
  IF Len(value) < 2 THEN value
  ELSE IF value[1] \notin p.Quotes THEN value
  ELSE IF value[Len(value)] # value[1] THEN value
  ELSE UnescapeQuotes(p, SubSeq(value, 2, Len(value)), value[1])

Dequote(p, value) ==
  IF Len(value) < 2 THEN value
  ELSE IF value[1] \notin p.Quotes THEN value
  ELSE IF value[Len(value)] # value[1] THEN value
  ELSE UnescapeQuotes(p, SubSeq(value, 2, Len(value) - 1), value[1])

\* String: Raw, then Dequote.
String(buf, p, row, col) ==
  LET r == Raw(buf, row, col) IN
  IF r.err # "nil" \/ r.fault THEN r ELSE [r EXCEPT !.out = Dequote(p, r.out)]

SetString(buf, p, row, col, value) ==
  SetRaw(buf, row, col,
         IF p.AlwaysQuoteStrings \/ HasQuotesOrWhitespace(p, value)
         THEN Quote(p, value) ELSE value)

-----------------------------------------------------------------------------
(* Append *)

\* An EnsureEndsWithEOL without the test for the empty text.
EnsureEndsWithEOLAlsoWhenEmpty(buf) ==
  IF buf # <<>> /\ buf[Len(buf)] = NL THEN buf ELSE buf \o <<NL>>

EnsureEndsWithEOL(buf) ==
  IF buf = <<>> THEN buf
  ELSE IF buf[Len(buf)] = NL THEN buf
  ELSE buf \o <<NL>>

RECURSIVE JoinFrom(_, _, _)
JoinFrom(values, delim, from) ==
  LET Iterate(i) ==
        IF i > Len(values) THEN <<>>
        ELSE (IF i > 1 THEN delim ELSE <<>>) \o values[i]
               \o JoinFrom(values, delim, i + 1)
  IN CHOOSE res \in {Iterate(i) : i \in {from}} : TRUE

\* Append: [row, err, conf].  The line terminator added by EnsureEndsWithEOL
\* stays in the buffer when the new line does not parse.
AppendRow(buf, p, values) ==
  LET Appended(eol, line, pr) ==
        IF pr.err # "nil"
        THEN [row |-> NilRow, err |-> "FAILED to parse", conf |-> eol]
        ELSE [row |-> pr.row, err |-> "nil", conf |-> eol \o line]
  IN CHOOSE res \in
       {Appended(eol, line, parseLine(p, line, Len(eol))) :
          eol \in {EnsureEndsWithEOL(buf)},
          line \in {JoinFrom(values, p.DefaultDelim, 1)}} : TRUE

-----------------------------------------------------------------------------
(* Package conf: key-indexed access to postgresql.conf *)

keyCol == 0
valueCol == 1

\* A LookupKey that keeps every line holding the key, with a value or not.
RECURSIVE LookupKeyLoopTakesAnyLine(_, _, _, _, _)
LookupKeyLoopTakesAnyLine(buf, p, key, from, found) ==
  LET Iterate(r, row) ==
        IF r.err # "nil" \/ r.fault THEN row
        ELSE LookupKeyLoopTakesAnyLine(buf, p, key, r.next, r.row)
  IN CHOOSE res \in
       {Iterate(r, row) :
          r \in {LookupRow(buf, p, keyCol, key, TRUE, from)}, row \in {found}} : TRUE

RECURSIVE LookupKeyLoop(_, _, _, _, _)
LookupKeyLoop(buf, p, key, from, found) ==
  LET Iterate(r, row) ==
        IF r.err # "nil" \/ r.fault THEN row
        ELSE LookupKeyLoop(buf, p, key, r.next,
                           IF HasColumn(r.row, valueCol) THEN r.row ELSE row)
  IN CHOOSE res \in
       {Iterate(r, row) :
          r \in {LookupRow(buf, p, keyCol, key, TRUE, from)}, row \in {found}} : TRUE

\* LookupKey: [row, err].
LookupKey(buf, p, key) ==
  CHOOSE res \in
    {IF row.nil THEN [row |-> NilRow, err |-> "ErrKeyNotFound"]
     ELSE [row |-> row, err |-> "nil"] :
       row \in {LookupKeyLoop(buf, p, key, 0, NilRow)}} : TRUE

\* LookupOrAppendK: [row, err, conf].
LookupOrAppendK(buf, p, key) ==
  CHOOSE res \in
    {IF lk.err = "ErrKeyNotFound" THEN AppendRow(buf, p, <<key, <<SQ, SQ>>>>)
     ELSE [row |-> lk.row, err |-> "nil", conf |-> buf] :
       lk \in {LookupKey(buf, p, key)}} : TRUE

\* RawK: [err, fault, out].
RawK(buf, p, key) ==
  CHOOSE res \in
    {IF lk.err # "nil" THEN [err |-> lk.err, fault |-> FALSE, out |-> <<>>]
     ELSE IF Raw(buf, lk.row, valueCol).err # "nil"
     THEN [Raw(buf, lk.row, valueCol) EXCEPT !.err = "ErrKeyWithoutValue"]
     ELSE Raw(buf, lk.row, valueCol) :
       lk \in {LookupKey(buf, p, key)}} : TRUE

\* StringK: [err, fault, out].
StringK(buf, p, key) ==
  CHOOSE res \in
    {IF lk.err # "nil" THEN [err |-> lk.err, fault |-> FALSE, out |-> <<>>]
     ELSE String(buf, p, lk.row, valueCol) :
       lk \in {LookupKey(buf, p, key)}} : TRUE

\* strings.TrimSpace and strings.HasPrefix.
IsSpace(b) == b \in {" ", "\t", "\r", NL}

\* The bytes of s from its first to its last non-blank byte.
TrimSpace(s) ==
  LET keep == {i \in 1..Len(s) : ~IsSpace(s[i])} IN
  IF keep = {} THEN <<>>
  ELSE SubSeq(s, CHOOSE i \in keep : \A j \in keep : i <= j,
                 CHOOSE i \in keep : \A j \in keep : i >= j)

HasPrefix(s, prefix) == HasPrefixAt(s, 1, prefix)

\* The chain of comparisons of BoolK on the trimmed, lower-cased value:
\* "true", "false" or "error".
ParseBool(value) ==
  IF value = <<"o", "n">> THEN "true"
  ELSE IF HasPrefix(value, <<"o", "f">>) THEN "false"
  ELSE IF HasPrefix(value, <<"t">>) THEN "true"
  ELSE IF HasPrefix(value, <<"f">>) THEN "false"
  ELSE IF HasPrefix(value, <<"y">>) THEN "true"
  ELSE IF HasPrefix(value, <<"n">>) THEN "false"
  ELSE IF value = <<"1">> THEN "true"
  ELSE IF value = <<"0">> THEN "false"
  ELSE "error"

\* BoolK: [err, bool].
BoolK(buf, p, key) ==
  CHOOSE res \in
    {IF s.err # "nil" THEN [err |-> s.err, bool |-> FALSE]
     ELSE IF ParseBool(ToLower(TrimSpace(s.out))) = "error"
     THEN [err |-> "unknown boolean value", bool |-> FALSE]
     ELSE [err |-> "nil", bool |-> ParseBool(ToLower(TrimSpace(s.out))) = "true"] :
       s \in {StringK(buf, p, key)}} : TRUE

\* SetRawK: [err, fault, conf].
SetRawK(buf, p, key, value) ==
  CHOOSE res \in
    {IF la.err # "nil" THEN [err |-> la.err, fault |-> FALSE, conf |-> la.conf]
     ELSE SetRaw(la.conf, la.row, valueCol, value) :
       la \in {LookupOrAppendK(buf, p, key)}} : TRUE

SetStringK(buf, p, key, value) ==
  CHOOSE res \in
    {IF la.err # "nil" THEN [err |-> la.err, fault |-> FALSE, conf |-> la.conf]
     ELSE SetString(la.conf, p, la.row, valueCol, value) :
       la \in {LookupOrAppendK(buf, p, key)}} : TRUE

\* strconv.Itoa and strconv.FormatInt(value, 10).
DigitByte(d) == <<"0", "1", "2", "3", "4", "5", "6", "7", "8", "9">>[d + 1]

RECURSIVE FormatUint(_)
FormatUint(value) ==
  LET Digits(n) ==
        IF n < 10 THEN <<DigitByte(n)>>
        ELSE FormatUint(n \div 10) \o <<DigitByte(n % 10)>>
  IN CHOOSE res \in {Digits(n) : n \in {value}} : TRUE

Itoa(n) == IF n < 0 THEN <<"-">> \o FormatUint(-n) ELSE FormatUint(n)

\* strconv.FormatFloat(value, 'f', -1, 64) for the float64 value q/4: the
\* fewest digits that represent it.
FormatFloat(q) ==
  LET a == IF q < 0 THEN -q ELSE q
      frac == CASE a % 4 = 0 -> <<>>
                [] a % 4 = 1 -> <<".", "2", "5">>
                [] a % 4 = 2 -> <<".", "5">>
                [] a % 4 = 3 -> <<".", "7", "5">>
  IN (IF q < 0 THEN <<"-">> ELSE <<>>) \o FormatUint(a \div 4) \o frac

SetIntK(buf, p, key, value) ==
  CHOOSE res \in
    {IF la.err # "nil" THEN [err |-> la.err, fault |-> FALSE, conf |-> la.conf]
     ELSE SetRaw(la.conf, la.row, valueCol, Itoa(value)) :
       la \in {LookupOrAppendK(buf, p, key)}} : TRUE

SetInt64K(buf, p, key, value) ==
  CHOOSE res \in
    {IF la.err # "nil" THEN [err |-> la.err, fault |-> FALSE, conf |-> la.conf]
     ELSE SetRaw(la.conf, la.row, valueCol, Itoa(value)) :
       la \in {LookupOrAppendK(buf, p, key)}} : TRUE

SetFloat64K(buf, p, key, q) ==
  CHOOSE res \in
    {IF la.err # "nil" THEN [err |-> la.err, fault |-> FALSE, conf |-> la.conf]
     ELSE SetRaw(la.conf, la.row, valueCol, FormatFloat(q)) :
       la \in {LookupOrAppendK(buf, p, key)}} : TRUE

SetTrueFalseK(buf, p, key, value) ==
  SetRawK(buf, p, key, IF value THEN <<"t", "r", "u", "e">> ELSE <<"f", "a", "l", "s", "e">>)

SetOnOffK(buf, p, key, value) ==
  SetRawK(buf, p, key, IF value THEN <<"o", "n">> ELSE <<"o", "f", "f">>)

SetYesNoK(buf, p, key, value) ==
  SetRawK(buf, p, key, IF value THEN <<"y", "e", "s">> ELSE <<"n", "o">>)

-----------------------------------------------------------------------------
(* Bounds and input sets *)

MaxLineLen == 4

\* All byte strings of length at most n over the bytes of S.
Strings(S, n) == UNION {[1..k -> S] : k \in 0..n}

\* The record of a call: which one, its arguments, what it returned.
NoCall ==
  [op |-> "none", key |-> <<>>, col |-> 0, value |-> <<>>, before |-> <<>>,
   row |-> NilRow, next |-> 0, err |-> "nil", out |-> <<>>, bool |-> FALSE,
   offset |-> 0]

NoneWritten == <<>>

-----------------------------------------------------------------------------
(* SpecParse: parseLine and Raw on one line of the buffer.  The buffer is a  *)
(* first line, then the line under test, with or without line terminator.  *)

FirstLine == <<"x", NL>>

ParseBytes == {"a", " ", "=", "#", SQ, DQ, BS, LeadByte, ContByte}

\* The line parseLine is given by LookupRow: from the end of the first line
\* through the line terminator, if there is one.
TestLine == Slice(conf, Len(FirstLine), Len(conf))

InitParse ==
  /\ \E line \in Strings(ParseBytes, MaxLineLen), eol \in {<<>>, <<NL>>} :
       conf = FirstLine \o line \o eol
  /\ params \in Dialects
  /\ held = NilRow
  /\ last = NoCall
  /\ fault = FALSE
  /\ initial = conf
  /\ written = NoneWritten
  /\ nops = 0
  /\ arg = <<>>

ParseLineCall ==
  /\ last.op = "none"
  /\ \E pr \in {parseLine(params, TestLine, Len(FirstLine))} :
       /\ held' = pr.row
       /\ last' = [NoCall EXCEPT !.op = "parseLine", !.row = pr.row, !.err = pr.err]
  /\ nops' = nops + 1
  /\ UNCHANGED <<conf, params, fault, initial, written, arg>>

RawCall(col) ==
  /\ last.op = "parseLine"
  /\ last.err = "nil"
  /\ \E r \in {Raw(conf, held, col)} :
       /\ last' = [NoCall EXCEPT !.op = "Raw", !.row = held, !.col = col,
                                 !.err = r.err, !.out = r.out]
       /\ fault' = r.fault
  /\ nops' = nops + 1
  /\ UNCHANGED <<conf, params, held, initial, written, arg>>

NextParse ==
  \/ ParseLineCall
  \/ \E col \in -1..ColCount(held) : RawCall(col)

SpecParse == InitParse /\ [][NextParse]_vars

-----------------------------------------------------------------------------
(* Claims about parseLine and Raw *)

\* The bytes that end a column: whitespace, the comment character, the line
\* terminator.
EndsColumn(p, b) == b \in p.Whitespace \/ b = p.InlineComment \/ b = NL

\* C4: Parse/Raw round trip.  Raw on a column parseLine reported returns the
\* complete column: it starts at a non-whitespace byte that begins the line
\* or follows whitespace, and it runs through the last byte before the
\* whitespace, comment character, line terminator or buffer end that ends
\* it, also when that last byte belongs to a multi-byte character.
C4_RoundTrip ==
  (last.op = "Raw" /\ HasColumn(held, last.col)) =>
    LET t == held.tokens[last.col + 1] IN
      /\ last.err = "nil"
      /\ ~fault
      /\ last.out = Slice(conf, t.Start, t.End)
      /\ last.out # <<>>
      /\ last.out[1] \notin params.Whitespace
      /\ (t.Start = Len(FirstLine) \/ conf[t.Start] \in params.Whitespace)
      /\ (t.End = Len(conf) \/ EndsColumn(params, conf[t.End + 1]))

\* The line under test opens with the quote q, holds the comment character
\* before the next q, at byte j (1-based) of the line, and no backslash or
\* line terminator in between.
QuotedComment(line, q, j) ==
  /\ q \in {SQ, DQ}
  /\ j \in 3..Len(line)
  /\ line[1] = q
  /\ line[j] = q
  /\ \A i \in 2..(j - 1) : line[i] \notin {q, BS, NL}
  /\ \E i \in 2..(j - 1) : line[i] = "#"

\* C5: parseLine stops at the first comment character outside a quoted
\* value only.  A quoted value that holds the comment character is one
\* column spanning the whole quoted text, and the scan goes on after it.
C5_CommentInsideQuotes ==
  last.op = "parseLine" =>
    \A q \in {SQ, DQ}, j \in 1..Len(TestLine) :
      QuotedComment(TestLine, q, j) =>
        /\ last.err = "nil"
        /\ ColCount(last.row) >= 1
        /\ last.row.tokens[1].Start = Len(FirstLine)
        /\ last.row.tokens[1].End >= Len(FirstLine) + j

-----------------------------------------------------------------------------
(* SpecQuote: Quote and Dequote on a value, under each built-in dialect.   *)

MaxValueLen == 3

QuoteBytes == {"a", " ", "=", "#", SQ, DQ, BS, LeadByte, ContByte}

InitQuote ==
  /\ arg \in Strings(QuoteBytes, MaxValueLen)
  /\ params \in Dialects
  /\ conf = <<>>
  /\ held = NilRow
  /\ last = NoCall
  /\ fault = FALSE
  /\ initial = <<>>
  /\ written = NoneWritten
  /\ nops = 0

QuoteCall ==
  /\ last.op = "none"
  /\ last' = [NoCall EXCEPT !.op = "Quote", !.value = arg, !.out = Quote(params, arg)]
  /\ nops' = nops + 1
  /\ UNCHANGED <<conf, params, held, fault, initial, written, arg>>

\* Dequote of the argument itself.
DequoteCall ==
  /\ last.op = "none"
  /\ last' = [NoCall EXCEPT !.op = "Dequote", !.value = arg, !.out = Dequote(params, arg)]
  /\ nops' = nops + 1
  /\ UNCHANGED <<conf, params, held, fault, initial, written, arg>>

\* Dequote of what Quote returned.
DequoteQuotedCall ==
  /\ last.op = "Quote"
  /\ last' = [NoCall EXCEPT !.op = "DequoteQuoted", !.value = last.out,
                            !.out = Dequote(params, last.out)]
  /\ nops' = nops + 1
  /\ UNCHANGED <<conf, params, held, fault, initial, written, arg>>

NextQuote == QuoteCall \/ DequoteCall \/ DequoteQuotedCall

SpecQuote == InitQuote /\ [][NextQuote]_vars

\* C10: quoting law.  Under each built-in dialect, a value without quote and
\* whitespace characters of the dialect (the empty value too) is what
\* Dequote(Quote(value)) returns.
C10_QuotingLaw ==
  (last.op = "DequoteQuoted" /\ ~HasQuotesOrWhitespace(params, arg)) => last.out = arg

\* The law has acted under both dialects: on the empty value, and on a value
\* ending in a backslash, which comes to stand before the closing quote.
C10_WitnessEmpty ==
  /\ last.op = "DequoteQuoted"
  /\ arg = <<>>
  /\ params = ConfParams
  /\ last.value = <<SQ, SQ>>
  /\ last.out = <<>>

C10_Witness ==
  /\ last.op = "DequoteQuoted"
  /\ arg = <<"a", "#", BS>>
  /\ params = HbaParams
  /\ last.value = <<DQ, "a", "#", BS, DQ>>
  /\ last.out = arg

-----------------------------------------------------------------------------
(* SpecBool: conf.BoolK on a buffer holding one line, "k = <value>".  The   *)
(* value is a word, written bare or quoted with blanks around it.          *)

MaxWordLen == 3

BoolBytes == {"o", "n", "f", "t", "y", "e", "r", "u", "s", "a", "l", "1", "0", "T"}

WordTrue == <<"t", "r", "u", "e">>
WordFalse == <<"f", "a", "l", "s", "e">>
WordYes == <<"y", "e", "s">>
WordNo == <<"n", "o">>
WordOn == <<"o", "n">>
WordOff == <<"o", "f", "f">>

BoolWords ==
  Strings(BoolBytes, MaxWordLen)
    \cup {WordTrue, WordFalse, <<"f", "a", "l", "s">>, <<"m", "a", "y", "b", "e">>}

BoolKey == <<"k">>

InitBool ==
  /\ arg \in BoolWords
  /\ \E wrap \in {<<arg>>, <<<<SQ, " ">>, arg, <<" ", SQ>>>>} :
       conf = BoolKey \o <<" ", "=", " ">> \o JoinFrom(wrap, <<>>, 1) \o <<NL>>
  /\ params = ConfParams
  /\ held = NilRow
  /\ last = NoCall
  /\ fault = FALSE
  /\ initial = conf
  /\ written = NoneWritten
  /\ nops = 0

BoolKCall ==
  /\ last.op = "none"
  /\ \E r \in {BoolK(conf, params, BoolKey)} :
       last' = [NoCall EXCEPT !.op = "BoolK", !.key = BoolKey, !.err = r.err,
                              !.bool = r.bool]
  /\ nops' = nops + 1
  /\ UNCHANGED <<conf, params, held, fault, initial, written, arg>>

StringKCall ==
  /\ last.op = "none"
  /\ \E r \in {StringK(conf, params, BoolKey)} :
       last' = [NoCall EXCEPT !.op = "StringK", !.key = BoolKey, !.err = r.err,
                              !.out = r.out]
  /\ nops' = nops + 1
  /\ UNCHANGED <<conf, params, held, fault, initial, written, arg>>

NextBool == BoolKCall \/ StringKCall

SpecBool == InitBool /\ [][NextBool]_vars

IsPrefixOf(v, word) == Len(v) <= Len(word) /\ SubSeq(word, 1, Len(v)) = v

NonEmptyPrefixOf(v, word) == v # <<>> /\ IsPrefixOf(v, word)

\* What the boolean grammar gives for the dequoted, trimmed, lower-cased v.
GrammarBool(v) ==
  IF v = WordOn THEN "true"
  ELSE IF NonEmptyPrefixOf(v, WordOff) THEN "false"
  ELSE IF NonEmptyPrefixOf(v, WordTrue) THEN "true"
  ELSE IF NonEmptyPrefixOf(v, WordFalse) THEN "false"
  ELSE IF NonEmptyPrefixOf(v, WordYes) THEN "true"
  ELSE IF NonEmptyPrefixOf(v, WordNo) THEN "false"
  ELSE IF v = <<"1">> THEN "true"
  ELSE IF v = <<"0">> THEN "false"
  ELSE "error"

\* C6: boolean parsing.  BoolK returns true for exactly "on", false for a
\* non-empty prefix of "off", true for one of "true", false for one of
\* "false", true for one of "yes", false for one of "no", true for "1",
\* false for "0", in that order, and an error for every other value.
C6_BoolGrammar ==
  last.op = "BoolK" =>
    LET g == GrammarBool(ToLower(TrimSpace(arg))) IN
      IF g = "error" THEN last.err # "nil"
      ELSE last.err = "nil" /\ last.bool = (g = "true")

-----------------------------------------------------------------------------
(* Spec: a conf.Conf built on a postgresql.conf text of up to MaxLines     *)
(* lines, and one call of package conf on it.                              *)

MaxLines == 2

\* The lines the initial text is made of.
LineKeyValue == <<"a", " ", "=", " ", "1">>
LineIndented == <<" ", "A", "=", "2", "2", " ", "#", "c">>
LineKeyOnly == <<"a">>
LineQuoted == <<"b", " ", SQ, "x", " ", "y", SQ>>
LineComment == <<"#", "c">>
LineMultiByte == <<"b", " ", "=", " ", LeadByte, ContByte>>
LineQuotedComment == <<"b", "=", SQ, "#", SQ>>

LineTemplates ==
  {LineKeyValue, LineIndented, LineKeyOnly, LineQuoted, LineComment,
   LineMultiByte, LineQuotedComment}

\* The lines joined by line terminators; the last line is terminated iff eol.
RECURSIVE JoinLines(_, _, _)
JoinLines(lines, eol, from) ==
  LET Iterate(i) ==
        IF i > Len(lines) THEN <<>>
        ELSE lines[i] \o (IF i < Len(lines) \/ eol THEN <<NL>> ELSE <<>>)
               \o JoinLines(lines, eol, i + 1)
  IN CHOOSE res \in {Iterate(i) : i \in {from}} : TRUE

InitialBuffers ==
  {JoinLines(ls, eol, 1) :
     ls \in UNION {[1..k -> LineTemplates] : k \in 0..MaxLines}, eol \in BOOLEAN}

Keys == {<<"a">>, <<"B">>}
RawValues == {<<"1">>, <<"3", "3", "3">>, <<SQ, "v", SQ, " ", "#">>}
StringValues == {<<"x">>, <<"y", " ", SQ, "z">>}
IntValues == {-12}
Int64Values == {345}
FloatValues == {-5}

Init ==
  /\ conf \in InitialBuffers
  /\ params = ConfParams
  /\ held = NilRow
  /\ last = NoCall
  /\ fault = FALSE
  /\ initial = conf
  /\ written = NoneWritten
  /\ nops = 0
  /\ arg = <<>>

\* A mutating call op(key, ...) that was to write text and returned r.
Mutated(op, key, text, result) ==
  /\ \E r \in {result} :
       /\ conf' = r.conf
       /\ fault' = r.fault
       /\ last' = [NoCall EXCEPT !.op = op, !.key = key, !.value = text,
                                 !.before = conf, !.err = r.err]
  /\ nops' = nops + 1
  /\ UNCHANGED <<params, held, initial, written, arg>>

CanCall == last.op = "none" /\ ~fault

SetRawKCall(key, value) ==
  CanCall /\ Mutated("SetRawK", key, value, SetRawK(conf, params, key, value))

SetStringKCall(key, value) ==
  CanCall /\ Mutated("SetStringK", key, value, SetStringK(conf, params, key, value))

SetIntKCall(key, value) ==
  CanCall /\ Mutated("SetIntK", key, Itoa(value), SetIntK(conf, params, key, value))

SetInt64KCall(key, value) ==
  CanCall /\ Mutated("SetInt64K", key, Itoa(value), SetInt64K(conf, params, key, value))

SetFloat64KCall(key, q) ==
  CanCall /\ Mutated("SetFloat64K", key, FormatFloat(q), SetFloat64K(conf, params, key, q))

SetTrueFalseKCall(key, value) ==
  CanCall /\ Mutated("SetTrueFalseK", key, <<>>, SetTrueFalseK(conf, params, key, value))

SetOnOffKCall(key, value) ==
  CanCall /\ Mutated("SetOnOffK", key, <<>>, SetOnOffK(conf, params, key, value))

SetYesNoKCall(key, value) ==
  CanCall /\ Mutated("SetYesNoK", key, <<>>, SetYesNoK(conf, params, key, value))

LookupKeyCall(key) ==
  /\ CanCall
  /\ \E r \in {LookupKey(conf, params, key)} :
       /\ last' = [NoCall EXCEPT !.op = "LookupKey", !.key = key, !.before = conf,
                                 !.row = r.row, !.err = r.err]
       /\ held' = r.row
  /\ nops' = nops + 1
  /\ UNCHANGED <<conf, params, fault, initial, written, arg>>

RawKCall(key) ==
  /\ CanCall
  /\ \E r \in {RawK(conf, params, key)} :
       /\ last' = [NoCall EXCEPT !.op = "RawK", !.key = key, !.before = conf,
                                 !.err = r.err, !.out = r.out]
       /\ fault' = r.fault
  /\ nops' = nops + 1
  /\ UNCHANGED <<conf, params, held, initial, written, arg>>

Next ==
  \/ \E key \in Keys, value \in RawValues : SetRawKCall(key, value)
  \/ \E key \in Keys, value \in StringValues : SetStringKCall(key, value)
  \/ \E key \in Keys, value \in IntValues : SetIntKCall(key, value)
  \/ \E key \in Keys, value \in Int64Values : SetInt64KCall(key, value)
  \/ \E key \in Keys, q \in FloatValues : SetFloat64KCall(key, q)
  \/ \E key \in Keys, value \in BOOLEAN : SetTrueFalseKCall(key, value)
  \/ \E key \in Keys, value \in BOOLEAN : SetOnOffKCall(key, value)
  \/ \E key \in Keys, value \in BOOLEAN : SetYesNoKCall(key, value)
  \/ \E key \in Keys : LookupKeyCall(key)
  \/ \E key \in Keys : RawKCall(key)

Spec == Init /\ [][Next]_vars

-----------------------------------------------------------------------------
(* Claims about package conf, stated on the lines of the text *)

Max(S) == CHOOSE x \in S : \A y \in S : x >= y
Min(S) == CHOOSE x \in S : \A y \in S : x <= y

\* The indices (1-based) of the line terminators of buf.
Terminators(buf) == {i \in 1..Len(buf) : buf[i] = NL}

\* The offsets at which the lines of buf start.
LineStarts(buf) == {0} \cup {i \in Terminators(buf) : i < Len(buf)}

\* The line starting at offset o, its terminator included.
LineAt(buf, o) ==
  LET ends == {i \in Terminators(buf) : i > o} IN
  Slice(buf, o, IF ends = {} THEN Len(buf) ELSE Min(ends))

RowAt(buf, p, o) == parseLine(p, LineAt(buf, o), o)

\* The line at o holds the key in column 0 (compared without case).
KeyLine(buf, p, o, key) ==
  LET pr == RowAt(buf, p, o) IN
    /\ pr.err = "nil"
    /\ ColCount(pr.row) >= 1
    /\ ToLower(Slice(buf, pr.row.tokens[1].Start, pr.row.tokens[1].End)) = ToLower(key)

\* The line at o holds the key and a value column.
ValueLine(buf, p, o, key) == KeyLine(buf, p, o, key) /\ ColCount(RowAt(buf, p, o).row) >= 2

KeyLines(buf, p, key) == {o \in LineStarts(buf) : KeyLine(buf, p, o, key)}
ValueLines(buf, p, key) == {o \in LineStarts(buf) : ValueLine(buf, p, o, key)}

\* The text between the line terminators of buf: its lines, without them.
NthTerminator(buf, k) ==
  IF k = 0 THEN 0
  ELSE IF k > Cardinality(Terminators(buf)) THEN Len(buf) + 1
  ELSE CHOOSE i \in Terminators(buf) :
         Cardinality({j \in Terminators(buf) : j <= i}) = k

Lines(buf) ==
  [k \in 1..(Cardinality(Terminators(buf)) + 1) |->
     SubSeq(buf, NthTerminator(buf, k - 1) + 1, NthTerminator(buf, k) - 1)]

\* The number (1-based) of the line that holds offset o.
LineNumber(buf, o) == Cardinality({i \in Terminators(buf) : i <= o}) + 1

SetterCalls ==
  {"SetRawK", "SetStringK", "SetIntK", "SetInt64K", "SetFloat64K",
   "SetTrueFalseK", "SetOnOffK", "SetYesNoK"}

\* The line `new` is the line `old` with the bytes [from, to) of it replaced:
\* the bytes before from and the bytes from `to` on are the same.
SameOutside(old, new, from, to) ==
  LET tail == Len(old) - to IN
    /\ Len(new) >= from + tail
    /\ SubSeq(new, 1, from) = SubSeq(old, 1, from)
    /\ SubSeq(new, Len(new) - tail + 1, Len(new)) = SubSeq(old, to + 1, Len(old))

\* C1: whitespace and comment preservation.  A SetXxxK call on a key that has
\* a value-bearing line leaves every other line byte-identical, and on the
\* edited line every byte outside the replaced value token: indentation,
\* key, delimiter, trailing whitespace and comment.
C1_Preservation ==
  (last.op \in SetterCalls /\ ValueLines(last.before, params, last.key) # {}) =>
    LET o == Max(ValueLines(last.before, params, last.key))
        t == RowAt(last.before, params, o).row.tokens[2]
        k == LineNumber(last.before, o)
        old == Lines(last.before)
        new == Lines(conf)
    IN /\ ~fault
       /\ Len(new) = Len(old)
       /\ \A j \in 1..Len(old) : j # k => new[j] = old[j]
       /\ SameOutside(old[k], new[k], t.Start - o, t.End - o)

\* SetStringK("a", "x") on the two-line text "a = 1", " A=22 #c": the second
\* line is edited, its indentation and comment stay, the first line stays.
C1_Witness ==
  /\ last.op = "SetStringK"
  /\ last.key = <<"a">>
  /\ last.err = "nil"
  /\ last.before = JoinLines(<<LineKeyValue, LineIndented>>, TRUE, 1)
  /\ conf = JoinLines(<<LineKeyValue,
                        <<" ", "A", "=", SQ, "x", SQ, " ", "#", "c">>>>, TRUE, 1)

\* C3: LookupKey returns the row of the last line whose column 0 is the key
\* (without case) and which has a value column; lines holding the key alone
\* are ignored wherever they stand; ErrKeyNotFound iff there is no such line.
C3_LastValueLine ==
  last.op = "LookupKey" =>
    LET vs == ValueLines(conf, params, last.key) IN
      IF vs = {} THEN last.err = "ErrKeyNotFound" /\ last.row.nil
      ELSE last.err = "nil" /\ last.row = RowAt(conf, params, Max(vs)).row

\* The key has a value-bearing line and, after it, a line holding the key
\* alone: the lookup returned the former.
C3_Witness ==
  /\ last.op = "LookupKey"
  /\ last.err = "nil"
  /\ \E o \in KeyLines(conf, params, last.key) :
       /\ o > Max(ValueLines(conf, params, last.key))
       /\ last.row.tokens[1].End <= o
  /\ ColCount(last.row) = 2

\* Two value-bearing lines for the key: the later one was returned.
C3_WitnessOverride ==
  /\ last.op = "LookupKey"
  /\ last.err = "nil"
  /\ Cardinality(ValueLines(conf, params, last.key)) = 2
  /\ last.row.tokens[1].Start >= Max(ValueLines(conf, params, last.key))

\* C7: RawK returns ErrKeyWithoutValue when the key is found but the lines
\* holding it have no value, and ErrKeyNotFound only when no line holds it.
C7_KeyWithoutValue ==
  last.op = "RawK" =>
    /\ (KeyLines(conf, params, last.key) # {} /\ ValueLines(conf, params, last.key) = {})
         => last.err = "ErrKeyWithoutValue"
    /\ last.err = "ErrKeyNotFound" => KeyLines(conf, params, last.key) = {}

-----------------------------------------------------------------------------
(* SpecEdits: a sequence of SetRawK calls on one conf.Conf, on keys the     *)
(* text holds and on keys it does not, with values of different lengths.   *)

MaxEdits == 2

EditKeys == {<<"a">>, <<"A">>, <<"b">>, <<"k">>}
EditValues == {<<"1">>, <<"3", "3", "3">>}

InitEdits ==
  /\ conf \in InitialBuffers
  /\ params = ConfParams
  /\ held = NilRow
  /\ last = NoCall
  /\ fault = FALSE
  /\ initial = conf
  /\ written = [k \in {ToLower(key) : key \in EditKeys} |-> <<>>]
  /\ nops = 0
  /\ arg = <<>>

EditCall(key, value) ==
  /\ nops < MaxEdits
  /\ ~fault
  /\ \E r \in {SetRawK(conf, params, key, value)} :
       /\ conf' = r.conf
       /\ fault' = r.fault
       /\ last' = [NoCall EXCEPT !.op = "SetRawK", !.key = key, !.value = value,
                                 !.before = conf, !.err = r.err]
  /\ written' = [written EXCEPT ![ToLower(key)] = value]
  /\ nops' = nops + 1
  /\ UNCHANGED <<params, held, initial, arg>>

NextEdits == \E key \in EditKeys, value \in EditValues : EditCall(key, value)

SpecEdits == InitEdits /\ [][NextEdits]_vars

\* C2: sequential multi-key edits.  After any sequence of SetRawK calls,
\* RawK returns for every key set in the sequence the value of the most
\* recent SetRawK on it (keys compared without case), and for every key never
\* set the value it had in the initial text.
C2_SequentialEdits ==
  \A key \in EditKeys :
    IF written[ToLower(key)] # <<>>
    THEN /\ RawK(conf, params, key).err = "nil"
         /\ RawK(conf, params, key).out = written[ToLower(key)]
    ELSE RawK(conf, params, key) = RawK(initial, params, key)

-----------------------------------------------------------------------------
(* SpecGeneric: the public calls of generic.Conf, in any order, the caller  *)
(* keeping the last row a call returned.                                   *)

MaxGenericCalls == 3

GenericBuffers ==
  {<<>>,
   <<"a", " ", "1">>,
   <<"a", " ", "1", NL, "b", "b", " ", "2", "2", " ", "#", "c", NL>>}

Lookups ==
  {[keyCol |-> 0, key |-> <<"a">>, ignoreCase |-> FALSE],
   [keyCol |-> 0, key |-> <<"B", "B">>, ignoreCase |-> TRUE],
   [keyCol |-> 1, key |-> <<"2", "2">>, ignoreCase |-> FALSE]}

\* Start offsets: before the text, its start, its end, past its end.
Offsets(buf) == {-1, 0, Len(buf), Len(buf) + 1}

GenericColumns == {0, 1, 2}
GenericValues == {<<"z">>, <<"w", "w", "w">>}
GenericStrings == {<<"q", " ", "r">>}
GenericRows == {<<<<"k">>, <<"v", "v">>>>, <<<<"#">>>>}

InitGeneric ==
  /\ conf \in GenericBuffers
  /\ params \in Dialects
  /\ held = NilRow
  /\ last = NoCall
  /\ fault = FALSE
  /\ initial = conf
  /\ written = NoneWritten
  /\ nops = 0
  /\ arg = <<>>

CanCallGeneric == nops < MaxGenericCalls /\ ~fault

LookupRowCall(l, offset) ==
  /\ CanCallGeneric
  /\ \E r \in {LookupRow(conf, params, l.keyCol, l.key, l.ignoreCase, offset)} :
       /\ last' = [NoCall EXCEPT !.op = "LookupRow", !.key = l.key, !.col = l.keyCol,
                                 !.before = conf, !.row = r.row, !.next = r.next,
                                 !.err = r.err]
       /\ held' = IF r.err = "nil" /\ ~r.fault THEN r.row ELSE held
       /\ fault' = r.fault
  /\ nops' = nops + 1
  /\ UNCHANGED <<conf, params, initial, written, arg>>

GenericRawCall(col) ==
  /\ CanCallGeneric
  /\ \E r \in {Raw(conf, held, col)} :
       /\ last' = [NoCall EXCEPT !.op = "Raw", !.col = col, !.before = conf,
                                 !.row = held, !.err = r.err, !.out = r.out]
       /\ fault' = r.fault
  /\ nops' = nops + 1
  /\ UNCHANGED <<conf, params, held, initial, written, arg>>

GenericStringCall(col) ==
  /\ CanCallGeneric
  /\ \E r \in {String(conf, params, held, col)} :
       /\ last' = [NoCall EXCEPT !.op = "String", !.col = col, !.before = conf,
                                 !.row = held, !.err = r.err, !.out = r.out]
       /\ fault' = r.fault
  /\ nops' = nops + 1
  /\ UNCHANGED <<conf, params, held, initial, written, arg>>

GenericSetRawCall(col, value) ==
  /\ CanCallGeneric
  /\ \E r \in {SetRaw(conf, held, col, value)} :
       /\ conf' = r.conf
       /\ fault' = r.fault
       /\ last' = [NoCall EXCEPT !.op = "SetRaw", !.col = col, !.value = value,
                                 !.before = conf, !.row = held, !.err = r.err]
  /\ nops' = nops + 1
  /\ UNCHANGED <<params, held, initial, written, arg>>

GenericSetStringCall(col, value) ==
  /\ CanCallGeneric
  /\ \E r \in {SetString(conf, params, held, col, value)} :
       /\ conf' = r.conf
       /\ fault' = r.fault
       /\ last' = [NoCall EXCEPT !.op = "SetString", !.col = col, !.value = value,
                                 !.before = conf, !.row = held, !.err = r.err]
  /\ nops' = nops + 1
  /\ UNCHANGED <<params, held, initial, written, arg>>

GenericAppendCall(values) ==
  /\ CanCallGeneric
  /\ \E r \in {AppendRow(conf, params, values)} :
       /\ conf' = r.conf
       /\ held' = IF r.err = "nil" THEN r.row ELSE held
       /\ last' = [NoCall EXCEPT !.op = "Append", !.before = conf, !.row = r.row,
                                 !.err = r.err]
  /\ nops' = nops + 1
  /\ UNCHANGED <<params, fault, initial, written, arg>>

NextGeneric ==
  \/ \E l \in Lookups, offset \in Offsets(conf) : LookupRowCall(l, offset)
  \/ \E col \in GenericColumns : GenericRawCall(col)
  \/ \E col \in GenericColumns : GenericStringCall(col)
  \/ \E col \in GenericColumns, value \in GenericValues : GenericSetRawCall(col, value)
  \/ \E col \in GenericColumns, value \in GenericStrings : GenericSetStringCall(col, value)
  \/ \E values \in GenericRows : GenericAppendCall(values)

SpecGeneric == InitGeneric /\ [][NextGeneric]_vars

\* C8: in every sequence of public calls on one generic.Conf (LookupRow with
\* any start offset; Raw and SetRaw also with a row obtained before an edit
\* that changed the length of the text), every failure is a returned error:
\* no call aborts with a run-time fault.
C8_NoRuntimeFault == ~fault

-----------------------------------------------------------------------------
(* SpecRewrite: a caller looks a row up from the start of the text and     *)
(* writes one of its columns back with the text Raw returns for it.        *)

RewriteLookups ==
  {[keyCol |-> 0, key |-> <<"a">>, ignoreCase |-> TRUE],
   [keyCol |-> 0, key |-> <<"b">>, ignoreCase |-> FALSE],
   [keyCol |-> 1, key |-> <<"=">>, ignoreCase |-> FALSE]}

RewriteColumns == {0, 1, 2, 3}

InitRewrite ==
  /\ conf \in InitialBuffers
  /\ params \in Dialects
  /\ held = NilRow
  /\ last = NoCall
  /\ fault = FALSE
  /\ initial = conf
  /\ written = NoneWritten
  /\ nops = 0
  /\ arg = <<>>

RewriteLookupCall(l) ==
  /\ last.op = "none"
  /\ \E r \in {LookupRow(conf, params, l.keyCol, l.key, l.ignoreCase, 0)} :
       /\ last' = [NoCall EXCEPT !.op = "LookupRow", !.key = l.key, !.col = l.keyCol,
                                 !.before = conf, !.row = r.row, !.next = r.next,
                                 !.err = r.err]
       /\ held' = IF r.err = "nil" THEN r.row ELSE held
       /\ fault' = r.fault
  /\ nops' = nops + 1
  /\ UNCHANGED <<conf, params, initial, written, arg>>

\* c.SetRaw(row, col, c.Raw(row, col)) on the row the lookup just returned.
RewriteCall(col) ==
  /\ last.op = "LookupRow" /\ last.err = "nil" /\ ~fault
  /\ \E raw \in {Raw(conf, held, col)} :
       /\ raw.err = "nil" /\ ~raw.fault
       /\ \E r \in {SetRaw(conf, held, col, raw.out)} :
            /\ conf' = r.conf
            /\ fault' = r.fault
            /\ last' = [NoCall EXCEPT !.op = "Rewrite", !.col = col, !.value = raw.out,
                                      !.before = conf, !.row = held, !.err = r.err,
                                      !.out = raw.out]
  /\ nops' = nops + 1
  /\ UNCHANGED <<params, held, initial, written, arg>>

NextRewrite ==
  \/ \E l \in RewriteLookups : RewriteLookupCall(l)
  \/ \E col \in RewriteColumns : RewriteCall(col)

SpecRewrite == InitRewrite /\ [][NextRewrite]_vars

\* C9: for a row obtained from a lookup on the current text and any column
\* of that row, SetRaw(row, col, Raw(row, col)) succeeds and leaves the text
\* byte for byte as it was.
C9_RewriteIsIdentity ==
  last.op = "Rewrite" => /\ last.err = "nil"
                         /\ ~fault
                         /\ conf = last.before

\* A rewrite of a column of several bytes with text before its row and
\* text after the column.
C9_Witness ==
  /\ last.op = "Rewrite"
  /\ Len(last.out) > 1
  /\ last.row.tokens[1].Start > 0
  /\ last.row.tokens[last.col + 1].End < Len(conf)

-----------------------------------------------------------------------------
(* SpecDequote: Dequote on a value of quotes, backslashes and letters,     *)
(* under the built-in dialects and one without backslash escaping.         *)

MaxDequoteLen == 6

DequoteBytes == {"a", SQ, DQ, BS}

\* Params a caller fills in with BackslashEscapedQuotes off.
PlainParams == [HbaParams EXCEPT !.BackslashEscapedQuotes = FALSE]

InitDequote ==
  /\ arg \in Strings(DequoteBytes, MaxDequoteLen)
  /\ params \in Dialects \cup {PlainParams}
  /\ conf = <<>>
  /\ held = NilRow
  /\ last = NoCall
  /\ fault = FALSE
  /\ initial = <<>>
  /\ written = NoneWritten
  /\ nops = 0

\* UnescapeQuotes of the argument, for the quote q.
UnescapeQuotesCall(q) ==
  /\ last.op = "none"
  /\ last' = [NoCall EXCEPT !.op = "UnescapeQuotes", !.value = arg, !.key = <<q>>,
                            !.out = UnescapeQuotes(params, arg, q)]
  /\ nops' = nops + 1
  /\ UNCHANGED <<conf, params, held, fault, initial, written, arg>>

NextDequote ==
  \/ DequoteCall
  \/ \E q \in params.Quotes : UnescapeQuotesCall(q)

SpecDequote == InitDequote /\ [][NextDequote]_vars

\* The value is enclosed: at least two bytes, the first a quote character of
\* the dialect, the last the same one.
Enclosed(p, v) == Len(v) >= 2 /\ v[1] \in p.Quotes /\ v[Len(v)] = v[1]

\* Byte i of s opens a pair <<a, q>> that is collapsed to q, the pairs taken
\* left to right without overlap: of a run of q, the 1st, 3rd, ... byte
\* opens a pair <<q, q>> when another q follows it.
OpensPair(s, a, q, i) ==
  /\ i < Len(s)
  /\ s[i] = a
  /\ s[i + 1] = q
  /\ a = q => LET before == {j \in 1..(i - 1) : s[j] # q}
                  runStart == IF before = {} THEN 1
                              ELSE 1 + CHOOSE j \in before : \A k \in before : k <= j
              IN (i - runStart) % 2 = 0

\* s with every pair <<a, q>> collapsed to q: the opening byte of each pair
\* is dropped.
Collapsed(s, a, q) ==
  LET kept == {i \in 1..Len(s) : ~OpensPair(s, a, q, i)}
  IN [n \in 1..Cardinality(kept) |->
        s[CHOOSE i \in kept : Cardinality({j \in kept : j < i}) = n - 1]]

\* C11: Dequote returns a value shorter than 2 characters, or one whose first
\* and last characters are not the same quote character of the dialect,
\* unchanged.  Otherwise it removes the first and the last character and, in
\* the remainder, collapses each doubled enclosing quote to one and, with
\* backslash escaping on, each backslash followed by the enclosing quote to
\* that quote; the other quote character is left as it is.
C11_DequoteLayers ==
  last.op = "Dequote" =>
    IF ~Enclosed(params, arg) THEN last.out = arg
    ELSE LET q == arg[1]
             undoubled == Collapsed(SubSeq(arg, 2, Len(arg) - 1), q, q)
         IN last.out = IF params.BackslashEscapedQuotes
                       THEN Collapsed(undoubled, BS, q)
                       ELSE undoubled

\* '""\'' under the conf dialect: the doubled other quote stays, the
\* backslash before the enclosing quote goes.
C11_Witness ==
  /\ last.op = "Dequote"
  /\ params = ConfParams
  /\ arg = <<SQ, DQ, DQ, BS, SQ, SQ>>
  /\ last.out = <<DQ, DQ, SQ>>

-----------------------------------------------------------------------------
(* SpecAppend: one Append on a generic.Conf, then Raw on the columns of    *)
(* the row it returned.                                                    *)

AppendBuffers == {<<>>, <<NL>>, <<"a", " ", "1">>, <<"a", " ", "1", NL>>}

AppendTokens ==
  {<<"k">>, <<"v", "v">>, <<LeadByte, ContByte>>, <<"#">>, <<"x", " ", "y">>, <<>>}

MaxAppendValues == 2

AppendValues == UNION {[1..n -> AppendTokens] : n \in 0..MaxAppendValues}

InitAppend ==
  /\ conf \in AppendBuffers
  /\ params \in Dialects
  /\ held = NilRow
  /\ last = NoCall
  /\ fault = FALSE
  /\ initial = conf
  /\ written = NoneWritten
  /\ nops = 0
  /\ arg = <<>>

\* row, err := c.Append(values...); written keeps the values.
AppendCall(values) ==
  /\ last.op = "none"
  /\ \E r \in {AppendRow(conf, params, values)} :
       /\ conf' = r.conf
       /\ held' = r.row
       /\ last' = [NoCall EXCEPT !.op = "Append", !.before = conf, !.row = r.row,
                                 !.err = r.err]
  /\ written' = values
  /\ nops' = nops + 1
  /\ UNCHANGED <<params, fault, initial, arg>>

\* c.Raw(row, col) on the row Append returned.
AppendRawCall(col) ==
  /\ last.op = "Append" /\ last.err = "nil"
  /\ \E r \in {Raw(conf, held, col)} :
       /\ last' = [NoCall EXCEPT !.op = "Raw", !.col = col, !.before = conf,
                                 !.row = held, !.err = r.err, !.out = r.out]
       /\ fault' = r.fault
  /\ nops' = nops + 1
  /\ UNCHANGED <<conf, params, held, initial, written, arg>>

NextAppend ==
  \/ \E values \in AppendValues : AppendCall(values)
  \/ \E col \in 0..MaxAppendValues : AppendRawCall(col)

SpecAppend == InitAppend /\ [][NextAppend]_vars

\* A non-empty token without whitespace, quote, comment or line-terminator
\* characters of the dialect.
PlainToken(p, v) ==
  /\ v # <<>>
  /\ \A i \in 1..Len(v) :
       v[i] \notin p.Whitespace \cup p.Quotes \cup {p.InlineComment, NL}

\* The values joined by the delimiter.
RECURSIVE Joined(_, _)
Joined(values, delim) ==
  IF values = <<>> THEN <<>>
  ELSE IF Len(values) = 1 THEN values[1]
  ELSE Joined(SubSeq(values, 1, Len(values) - 1), delim)
         \o delim \o values[Len(values)]

\* C12: Append(values...) makes the buffer the old buffer, then one line
\* terminator iff the old buffer is non-empty and does not end with one,
\* then the values joined with DefaultDelim, and nothing after them.  When
\* every value is a non-empty token without whitespace, quote or comment
\* characters, the row returned has len(values) columns and Raw(row, i) on
\* the new buffer is values[i].
C12_AppendExact ==
  /\ last.op = "Append" =>
       /\ conf = last.before
                   \o (IF last.before # <<>> /\ last.before[Len(last.before)] # NL
                       THEN <<NL>> ELSE <<>>)
                   \o Joined(written, params.DefaultDelim)
       /\ (written # <<>> /\ \A i \in 1..Len(written) : PlainToken(params, written[i]))
            => last.err = "nil" /\ ColCount(last.row) = Len(written)
  /\ (last.op = "Raw" /\ last.col < Len(written)
        /\ \A i \in 1..Len(written) : PlainToken(params, written[i]))
       => last.err = "nil" /\ ~fault /\ last.out = written[last.col + 1]

-----------------------------------------------------------------------------
(* SpecSetMissing: conf.SetRawK calls, with keys the text does not hold yet *)
(* and raw values of every kind, on a short postgresql.conf text.          *)

MaxSetCalls == 2

MissingBuffers ==
  {<<>>,
   <<"k">>,
   <<"#", "c", NL>>,
   <<"a", " ", "=", " ", "1">>,
   <<"a", " ", "=", " ", "1", NL>>}

MissingKeys == {<<"a">>, <<"b">>, <<"B">>, <<LeadByte, ContByte>>}

MissingValues ==
  {<<"1">>, <<>>, <<"#", "x">>, <<LeadByte, ContByte>>, <<SQ, "v", " ", "w", SQ>>}

InitSetMissing ==
  /\ conf \in MissingBuffers
  /\ params = ConfParams
  /\ held = NilRow
  /\ last = NoCall
  /\ fault = FALSE
  /\ initial = conf
  /\ written = <<>>
  /\ nops = 0
  /\ arg = <<>>

\* c.SetRawK(key, value); written keeps the calls made, in order.
SetMissingCall(key, value) ==
  /\ nops < MaxSetCalls
  /\ ~fault
  /\ \E r \in {SetRawK(conf, params, key, value)} :
       /\ conf' = r.conf
       /\ fault' = r.fault
       /\ last' = [NoCall EXCEPT !.op = "SetRawK", !.key = key, !.value = value,
                                 !.before = conf, !.err = r.err]
  /\ written' = Append(written, [key |-> key, value |-> value, before |-> conf])
  /\ nops' = nops + 1
  /\ UNCHANGED <<params, held, initial, arg>>

NextSetMissing ==
  \E key \in MissingKeys, value \in MissingValues : SetMissingCall(key, value)

SpecSetMissing == InitSetMissing /\ [][NextSetMissing]_vars

\* The text with the line "key = value" appended: a line terminator first
\* iff the text is non-empty and does not end with one.
WithLine(buf, key, value) ==
  buf \o (IF buf # <<>> /\ buf[Len(buf)] # NL THEN <<NL>> ELSE <<>>)
      \o key \o <<" ", "=", " ">> \o value

\* The call c of the history set a key the text had no value-bearing line for.
SetsMissingKey(c) ==
  PlainToken(params, c.key) /\ ValueLines(c.before, params, c.key) = {}

\* Appending: SetRawK of a missing key succeeds and appends "key = value".
AppendsMissingKey ==
  last.op = "SetRawK" =>
    LET c == written[Len(written)] IN
      SetsMissingKey(c) =>
        /\ last.err = "nil"
        /\ ~fault
        /\ conf = WithLine(c.before, c.key, c.value)

\* In call order: on an empty text, calls with distinct new keys give the
\* lines "k1 = v1", "k2 = v2", ..., the first at the start of the text.
RECURSIVE LinesOfCalls(_)
LinesOfCalls(calls) ==
  IF calls = <<>> THEN <<>>
  ELSE WithLine(LinesOfCalls(SubSeq(calls, 1, Len(calls) - 1)),
                calls[Len(calls)].key, calls[Len(calls)].value)

DistinctNewKeys ==
  /\ initial = <<>>
  /\ \A i \in 1..Len(written) : PlainToken(params, written[i].key)
  /\ \A i, j \in 1..Len(written) :
       i # j => ToLower(written[i].key) # ToLower(written[j].key)

InCallOrder == (written # <<>> /\ DistinctNewKeys) => conf = LinesOfCalls(written)

\* The last two calls set the same key, the first of them appending its line.
SecondOnSameKey ==
  /\ Len(written) >= 2
  /\ SetsMissingKey(written[Len(written) - 1])
  /\ ToLower(written[Len(written)].key) = ToLower(written[Len(written) - 1].key)

\* The second call edits the line the first one appended: the text up to the
\* value of that line stays and no line is added.
EditsAppendedLine ==
  LET c1 == written[Len(written) - 1]
      c2 == written[Len(written)]
      upto == WithLine(c1.before, c1.key, <<>>)
  IN /\ last.err = "nil"
     /\ ~fault
     /\ Len(conf) >= Len(upto)
     /\ SubSeq(conf, 1, Len(upto)) = upto
     /\ Cardinality(Terminators(conf)) = Cardinality(Terminators(c2.before))

\* The raw value leaves a value column on its line: it holds a byte that is
\* neither whitespace nor the comment character before any comment
\* character.
LeavesValueColumn(p, v) ==
  \E i \in 1..Len(v) :
    /\ v[i] \notin p.Whitespace \cup {p.InlineComment, NL}
    /\ \A j \in 1..(i - 1) : v[j] \in p.Whitespace

\* C13 as stated: setting a missing key appends "key = value" (after a line
\* terminator iff the text is non-empty and does not end with one), calls
\* with distinct new keys on an empty text give their lines in call order
\* with no leading blank line, and a second SetRawK on the same key edits
\* that line instead of appending another, whatever the first value was.
C13_SetMissingKey ==
  /\ AppendsMissingKey
  /\ InCallOrder
  /\ SecondOnSameKey => EditsAppendedLine

\* C13 amended: the same, the second call editing the appended line when
\* the first value left a value column on it (a value that is empty, blank
\* or starts with the comment character leaves the key alone on its line,
\* LookupKey ignores such a line and the second call appends a new one).
C13_SetMissingKeyWithValue ==
  /\ AppendsMissingKey
  /\ InCallOrder
  /\ (SecondOnSameKey /\ LeavesValueColumn(params, written[Len(written) - 1].value))
       => EditsAppendedLine

\* SetRawK("b", "'v w'") then SetRawK("B", "1") on "a = 1": one line appended,
\* then edited.
C13_Witness ==
  /\ initial = <<"a", " ", "=", " ", "1">>
  /\ Len(written) = 2
  /\ written[1].key = <<"b">> /\ written[1].value = <<SQ, "v", " ", "w", SQ>>
  /\ written[2].key = <<"B">> /\ written[2].value = <<"1">>
  /\ conf = <<"a", " ", "=", " ", "1", NL, "b", " ", "=", " ", "1">>

-----------------------------------------------------------------------------
(* Package hba: LookupFirst and LookupAll *)

\* LookupFirst: [row, err, fault].
LookupFirst(buf, p, kcol, key) ==
  CHOOSE res \in
    {IF r.err # "nil" THEN [row |-> NilRow, err |-> r.err, fault |-> r.fault]
     ELSE [row |-> r.row, err |-> "nil", fault |-> r.fault] :
       r \in {LookupRow(buf, p, kcol, key, TRUE, 0)}} : TRUE

\* The loop of LookupAll: the rows found from offset `from` on, after `found`.
RECURSIVE LookupAllLoop(_, _, _, _, _, _)
LookupAllLoop(buf, p, kcol, key, from, found) ==
  LET Iterate(r, rows) ==
        IF r.err # "nil" \/ r.fault THEN rows
        ELSE LookupAllLoop(buf, p, kcol, key, r.next, Append(rows, r.row))
  IN CHOOSE res \in
       {Iterate(r, rows) :
          r \in {LookupRow(buf, p, kcol, key, TRUE, from)}, rows \in {found}} : TRUE

\* LookupAll: [rows, err].
LookupAll(buf, p, kcol, key) ==
  CHOOSE res \in
    {IF rows = <<>> THEN [rows |-> <<>>, err |-> "ErrKeyNotFound"]
     ELSE [rows |-> rows, err |-> "nil"] :
       rows \in {LookupAllLoop(buf, p, kcol, key, 0, <<>>)}} : TRUE

-----------------------------------------------------------------------------
(* SpecLookup: one search on a text of up to MaxLookupLines lines:         *)
(* generic LookupRow from any offset of the text, hba LookupFirst and      *)
(* LookupAll.                                                              *)

MaxLookupLines == 2

LookupLines ==
  {<<"a", " ", "1">>,
   <<" ", "A", " ", "a">>,
   <<SQ, "a", SQ, " ", "1">>,
   <<"#", "a">>,
   <<>>,
   <<"b", " ", LeadByte, ContByte>>}

LookupBuffers ==
  {JoinLines(ls, eol, 1) :
     ls \in UNION {[1..k -> LookupLines] : k \in 0..MaxLookupLines}, eol \in BOOLEAN}

LookupKeyCols == {0, 1}
LookupKeys == {<<"a">>, <<SQ, "a", SQ>>, <<LeadByte, ContByte>>}

InitLookup ==
  /\ conf \in LookupBuffers
  /\ params \in Dialects
  /\ held = NilRow
  /\ last = NoCall
  /\ fault = FALSE
  /\ initial = conf
  /\ written = NoneWritten
  /\ nops = 0
  /\ arg = <<>>

\* row, next, err := c.LookupRow(keyCol, key, ignoreCase, offset)
LookupFromCall(kcol, key, ignoreCase, offset) ==
  /\ last.op = "none"
  /\ \E r \in {LookupRow(conf, params, kcol, key, ignoreCase, offset)} :
       /\ last' = [NoCall EXCEPT !.op = "LookupRow", !.key = key, !.col = kcol,
                                 !.bool = ignoreCase, !.offset = offset,
                                 !.before = conf,
                                 !.row = r.row, !.next = r.next, !.err = r.err]
       /\ held' = r.row
       /\ fault' = r.fault
  /\ nops' = nops + 1
  /\ UNCHANGED <<conf, params, initial, written, arg>>

\* row, err := c.LookupFirst(keyCol, key)
LookupFirstCall(kcol, key) ==
  /\ last.op = "none"
  /\ params = HbaParams
  /\ \E r \in {LookupFirst(conf, params, kcol, key)} :
       /\ last' = [NoCall EXCEPT !.op = "LookupFirst", !.key = key, !.col = kcol,
                                 !.before = conf, !.row = r.row, !.err = r.err]
       /\ held' = r.row
       /\ fault' = r.fault
  /\ nops' = nops + 1
  /\ UNCHANGED <<conf, params, initial, written, arg>>

\* rows, err := c.LookupAll(keyCol, key); written keeps the rows.
LookupAllCall(kcol, key) ==
  /\ last.op = "none"
  /\ params = HbaParams
  /\ \E r \in {LookupAll(conf, params, kcol, key)} :
       /\ last' = [NoCall EXCEPT !.op = "LookupAll", !.key = key, !.col = kcol,
                                 !.before = conf, !.err = r.err]
       /\ written' = r.rows
  /\ nops' = nops + 1
  /\ UNCHANGED <<conf, params, held, fault, initial, arg>>

NextLookup ==
  \/ \E kcol \in LookupKeyCols, key \in LookupKeys, ignoreCase \in BOOLEAN,
        offset \in 0..Len(conf) : LookupFromCall(kcol, key, ignoreCase, offset)
  \/ \E kcol \in LookupKeyCols, key \in LookupKeys : LookupFirstCall(kcol, key)
  \/ \E kcol \in LookupKeyCols, key \in LookupKeys : LookupAllCall(kcol, key)

SpecLookup == InitLookup /\ [][NextLookup]_vars

-----------------------------------------------------------------------------
(* Claims about the searches, stated on the lines of the text *)

\* The end of the character whose first byte is the last byte of buf[..e].
CharEnd(buf, e) ==
  IF e >= 1 /\ e < Len(buf) /\ buf[e] = LeadByte /\ buf[e + 1] = ContByte
  THEN e + 1 ELSE e

\* The raw text of a column: its bytes, quotes included, through the end of
\* its last character.
ColumnText(buf, t) == Slice(buf, t.Start, CharEnd(buf, t.End))

\* The line at o has a column kcol whose raw text is the key.
LineMatches(buf, p, o, kcol, key, ignoreCase) ==
  LET pr == RowAt(buf, p, o) IN
    /\ pr.err = "nil"
    /\ HasColumn(pr.row, kcol)
    /\ \/ ColumnText(buf, pr.row.tokens[kcol + 1]) = key
       \/ /\ ignoreCase
          /\ ToLower(ColumnText(buf, pr.row.tokens[kcol + 1])) = ToLower(key)

\* Where the lines of the text from `start` on begin.
ScanStarts(buf, start) == {start} \cup {i \in Terminators(buf) : i > start}

\* The offset just after the line at o: after its terminator, or the end of
\* the text.
LineStop(buf, o) ==
  LET ends == {i \in Terminators(buf) : i > o} IN
  IF ends = {} THEN Len(buf) ELSE Min(ends)

\* C14: LookupRow from a start offset within the text returns the first line
\* at or after it whose column keyCol has the key as its raw text, quotes
\* included (without case iff ignoreCase), and the offset just after that
\* line; lines that are blank, comments or lack the column are skipped;
\* ErrKeyNotFound iff there is no such line; a quoted key is not the
\* unquoted one.
C14_FirstMatch ==
  last.op = "LookupRow" =>
    LET ms == {o \in ScanStarts(conf, last.offset) :
                 LineMatches(conf, params, o, last.col, last.key, last.bool)}
    IN /\ ~fault
       /\ IF ms = {} THEN last.err = "ErrKeyNotFound"
          ELSE /\ last.err = "nil"
               /\ last.row = RowAt(conf, params, Min(ms)).row
               /\ last.next = LineStop(conf, Min(ms))

\* The elements of the set S of numbers, in increasing order.
Sorted(S) ==
  [n \in 1..Cardinality(S) |->
     CHOOSE x \in S : Cardinality({y \in S : y < x}) = n - 1]

\* C15: hba.LookupAll returns one row per line of the text whose column
\* keyCol is the key (without case), in the order of the lines, none missed
\* and none twice, a last line without terminator included; ErrKeyNotFound
\* iff no line matches.
C15_AllMatches ==
  last.op = "LookupAll" =>
    LET ms == Sorted({o \in ScanStarts(conf, 0) :
                        LineMatches(conf, params, o, last.col, last.key, TRUE)})
    IN IF ms = <<>> THEN last.err = "ErrKeyNotFound"
       ELSE /\ last.err = "nil"
            /\ written = [n \in 1..Len(ms) |-> RowAt(conf, params, ms[n]).row]

-----------------------------------------------------------------------------
(* SpecTokens: Raw and SetRaw on the row of a lookup, on no row at all, or *)
(* on a row one of whose tokens the caller has rewritten through the       *)
(* pointer Row.Token returns.                                              *)

TokenBuffers ==
  {<<>>,
   <<"a">>,
   <<"a", " ", " ", "#", "c", NL>>,
   <<" ", "a", " ", "1", NL>>}

TokenPositions == {-1, 0, 1, 2}
TokenColumns == {-1, 0, 1, 2}
TokenValues == {<<"z">>}

InitTokens ==
  /\ conf \in TokenBuffers
  /\ params \in Dialects
  /\ held = NilRow
  /\ last = NoCall
  /\ fault = FALSE
  /\ initial = conf
  /\ written = NoneWritten
  /\ nops = 0
  /\ arg = <<>>

\* row, _, err := c.LookupRow(0, "a", false, 0): a nil row on an error.
TokenLookupCall ==
  /\ last.op = "none"
  /\ \E r \in {LookupRow(conf, params, 0, <<"a">>, FALSE, 0)} :
       /\ last' = [NoCall EXCEPT !.op = "LookupRow", !.key = <<"a">>, !.before = conf,
                                 !.row = r.row, !.next = r.next, !.err = r.err]
       /\ held' = r.row
       /\ fault' = r.fault
  /\ nops' = nops + 1
  /\ UNCHANGED <<conf, params, initial, written, arg>>

\* t, _ := row.Token(col); t.Start, t.End = start, end
TokenPatchCall(col, start, end) ==
  /\ last.op = "LookupRow"
  /\ ~held.nil /\ HasColumn(held, col)
  /\ held' = [held EXCEPT !.tokens[col + 1] = Token(start, end)]
  /\ last' = [NoCall EXCEPT !.op = "Token", !.col = col, !.before = conf, !.row = held']
  /\ nops' = nops + 1
  /\ UNCHANGED <<conf, params, fault, initial, written, arg>>

TokenRawCall(col) ==
  /\ last.op \in {"none", "LookupRow", "Token"}
  /\ \E r \in {Raw(conf, held, col)} :
       /\ last' = [NoCall EXCEPT !.op = "Raw", !.col = col, !.before = conf,
                                 !.row = held, !.err = r.err, !.out = r.out]
       /\ fault' = r.fault
  /\ nops' = nops + 1
  /\ UNCHANGED <<conf, params, held, initial, written, arg>>

TokenSetRawCall(col, value) ==
  /\ last.op \in {"none", "LookupRow", "Token"}
  /\ \E r \in {SetRaw(conf, held, col, value)} :
       /\ conf' = r.conf
       /\ fault' = r.fault
       /\ last' = [NoCall EXCEPT !.op = "SetRaw", !.col = col, !.value = value,
                                 !.before = conf, !.row = held, !.err = r.err]
  /\ nops' = nops + 1
  /\ UNCHANGED <<params, held, initial, written, arg>>

NextTokens ==
  \/ TokenLookupCall
  \/ \E col \in TokenColumns, start \in TokenPositions, end \in TokenPositions :
       TokenPatchCall(col, start, end)
  \/ \E col \in TokenColumns : TokenRawCall(col)
  \/ \E col \in TokenColumns, value \in TokenValues : TokenSetRawCall(col, value)

SpecTokens == InitTokens /\ [][NextTokens]_vars

\* The (row, col) pairs that have no value: no row, no such column, or a
\* token with Start = -1, End = -1, Start > End or size 0.
NoValueAt(row, col) ==
  \/ row.nil
  \/ col < 0
  \/ col >= Len(row.tokens)
  \/ LET t == row.tokens[col + 1] IN
       t.Start = -1 \/ t.End = -1 \/ t.Start > t.End \/ t.End - t.Start = 0

\* The line holds a key alone: blanks, the key, blanks, perhaps a comment.
KeyAlone(p, line) ==
  \E i \in 1..Len(line), j \in 1..Len(line) :
    /\ i <= j
    /\ \A k \in 1..(i - 1) : line[k] \in p.Whitespace
    /\ \A k \in i..j : line[k] \notin p.Whitespace \cup p.Quotes \cup {p.InlineComment, NL}
    /\ j < Len(line) => line[j + 1] \in p.Whitespace \cup {p.InlineComment, NL}
    /\ \A k \in (j + 1)..Len(line) :
         line[k] \in p.Whitespace \cup {NL} \/ \E c \in (j + 1)..k : line[c] = p.InlineComment

\* C16: Raw and SetRaw return an error for the same (row, col) pairs, namely
\* a nil row, a column outside [0, ColCount), or a token with Start = -1,
\* End = -1, Start > End or size 0.  A line holding a key alone (blanks and
\* a comment may follow) has exactly one column, and column 1 of it fails.
C16_SameFailures ==
  /\ last.op \in {"Raw", "SetRaw"} => (last.err # "nil" <=> NoValueAt(last.row, last.col))
  /\ (last.op = "LookupRow" /\ last.err = "nil"
        /\ KeyAlone(params, LineAt(conf, 0))) => ColCount(last.row) = 1

\* SetRaw on column 1 of the row of "a  #c": refused, the text stays.
C16_Witness ==
  /\ last.op = "SetRaw"
  /\ last.col = 1
  /\ last.row = [nil |-> FALSE, tokens |-> <<Token(0, 1)>>]
  /\ last.err # "nil"
  /\ conf = <<"a", " ", " ", "#", "c", NL>>

-----------------------------------------------------------------------------
(* SpecSetString: SetString on a column of the row of a lookup.            *)

MaxStringLen == 2

SetStringBuffers ==
  {<<"a", " ", "1">>,
   <<" ", "a", "\t", SQ, "x", " ", "y", SQ, " ", "#", "c", NL, "b", " ", "2", NL>>,
   <<"a", " ", LeadByte, ContByte, NL>>}

SetStringBytes == {"v", " ", "=", SQ, DQ}
SetStringColumns == {0, 1}

InitSetString ==
  /\ conf \in SetStringBuffers
  /\ params \in Dialects
  /\ held = NilRow
  /\ last = NoCall
  /\ fault = FALSE
  /\ initial = conf
  /\ written = NoneWritten
  /\ nops = 0
  /\ arg = <<>>

SetStringLookupCall ==
  /\ last.op = "none"
  /\ \E r \in {LookupRow(conf, params, 0, <<"a">>, FALSE, 0)} :
       /\ last' = [NoCall EXCEPT !.op = "LookupRow", !.key = <<"a">>, !.before = conf,
                                 !.row = r.row, !.next = r.next, !.err = r.err]
       /\ held' = r.row
       /\ fault' = r.fault
  /\ nops' = nops + 1
  /\ UNCHANGED <<conf, params, initial, written, arg>>

SetStringCall(col, value) ==
  /\ last.op = "LookupRow" /\ last.err = "nil"
  /\ \E r \in {SetString(conf, params, held, col, value)} :
       /\ conf' = r.conf
       /\ fault' = r.fault
       /\ last' = [NoCall EXCEPT !.op = "SetString", !.col = col, !.value = value,
                                 !.before = conf, !.row = held, !.err = r.err]
  /\ nops' = nops + 1
  /\ UNCHANGED <<params, held, initial, written, arg>>

NextSetString ==
  \/ SetStringLookupCall
  \/ \E col \in SetStringColumns, value \in Strings(SetStringBytes, MaxStringLen) :
       SetStringCall(col, value)

SpecSetString == InitSetString /\ [][NextSetString]_vars

\* value with every quote character q written twice.
RECURSIVE Doubled(_, _)
Doubled(value, q) ==
  IF value = <<>> THEN <<>>
  ELSE (IF Head(value) = q THEN <<q, q>> ELSE <<Head(value)>>) \o Doubled(Tail(value), q)

MustQuote(p, value) ==
  \/ p.AlwaysQuoteStrings
  \/ \E i \in 1..Len(value) : value[i] \in p.Whitespace \cup p.Quotes

WrittenText(p, value) ==
  IF MustQuote(p, value)
  THEN <<p.DefaultQuote>> \o Doubled(value, p.DefaultQuote) \o <<p.DefaultQuote>>
  ELSE value

C17_WitnessVerbatim ==
  /\ last.op = "SetString" /\ last.err = "nil" /\ ~fault
  /\ params = HbaParams
  /\ last.value = <<"v", "v">>
  /\ conf = <<"a", " ", "v", "v">>

-----------------------------------------------------------------------------
(* SpecEqual: conf dialect, a line made of a key, a separator and a value,  *)
(* tokenized by parseLine and read back by Raw.                            *)

EqualKeys == {<<"a">>, <<"a", "b">>, <<LeadByte, ContByte>>}

EqualValues ==
  {<<"1">>,
   <<"1", "2">>,
   <<SQ, "=", SQ>>,
   <<DQ, "x", "=", "y", DQ>>,
   <<SQ, "x", " ", "y", SQ>>,
   <<LeadByte, ContByte>>}

\* "k=v", "k = v", "k v", "k\tv"
EqualSeparators == {<<"=">>, <<" ", "=", " ">>, <<" ">>, <<"\t">>}

InitEqual ==
  /\ written \in {<<k, v>> : k \in EqualKeys, v \in EqualValues}
  /\ arg \in EqualSeparators
  /\ \E eol \in {<<>>, <<NL>>} :
       conf = FirstLine \o written[1] \o arg \o written[2] \o eol
  /\ params = ConfParams
  /\ held = NilRow
  /\ last = NoCall
  /\ fault = FALSE
  /\ initial = conf
  /\ nops = 0

EqualParseCall ==
  /\ last.op = "none"
  /\ \E pr \in {parseLine(params, TestLine, Len(FirstLine))} :
       /\ held' = pr.row
       /\ last' = [NoCall EXCEPT !.op = "parseLine", !.row = pr.row, !.err = pr.err]
  /\ nops' = nops + 1
  /\ UNCHANGED <<conf, params, fault, initial, written, arg>>

EqualRawCall(col) ==
  /\ last.op = "parseLine"
  /\ \E r \in {Raw(conf, held, col)} :
       /\ last' = [NoCall EXCEPT !.op = "Raw", !.row = held, !.col = col,
                                 !.err = r.err, !.out = r.out]
       /\ fault' = r.fault
  /\ nops' = nops + 1
  /\ UNCHANGED <<conf, params, held, initial, written, arg>>

NextEqual ==
  \/ EqualParseCall
  \/ \E col \in {0, 1, 2} : EqualRawCall(col)

SpecEqual == InitEqual /\ [][NextEqual]_vars

\* C18: in the conf dialect an '=' outside quotes separates columns like a
\* whitespace character: "k=v", "k = v", "k v" and "k<TAB>v" all have two
\* columns, with the raw texts k and v; an '=' inside a quoted value is part
\* of the value.
C18_OptionalEqual ==
  /\ last.op = "parseLine" => (last.err = "nil" /\ ColCount(last.row) = 2)
  /\ (last.op = "Raw" /\ last.col \in {0, 1}) =>
       (last.err = "nil" /\ ~fault /\ last.out = written[last.col + 1])
  /\ (last.op = "Raw" /\ last.col = 2) => last.err # "nil"

-----------------------------------------------------------------------------
(* Package pgconf (legacy): File, whose text is the variable conf.  The     *)
(* names of the package that the generic package also uses carry the       *)
(* receiver's name.                                                        *)

\* newFile: Whitespace is space, tab and return.
FileWhitespace == {" ", "\t", "\r"}

FileToken(s, e) == [start |-> s, end |-> e]

newParam == [key |-> FileToken(-1, -1), value |-> FileToken(-1, -1)]

valueSize(p) ==
  IF p.value.start = -1 \/ p.value.end = -1 \/ p.value.end <= p.value.start
  THEN 0
  ELSE p.value.end - p.value.start

FileParseInit ==
  [p |-> newParam, pos |-> -1, insideQuote |-> FALSE, lastRune |-> NoRune,
   stop |-> FALSE]

\* One iteration of the loop body of File.parseLine for the rune r at byte i.
FileParseRune(offset, i, r, st) ==
  LET pos == offset + i
      isWhitespace == r \in FileWhitespace
      isQuote == r = SQ
      isEqual == r = "="
  IN
  IF st.p.value.start > -1
  THEN LET inside == IF isQuote /\ st.lastRune # BS
                     THEN ~st.insideQuote ELSE st.insideQuote
       IN IF isWhitespace /\ ~inside
          THEN [st EXCEPT !.pos = pos, !.insideQuote = inside,
                          !.p.value.end = pos, !.stop = TRUE]
          ELSE [st EXCEPT !.pos = pos, !.insideQuote = inside, !.lastRune = r]
  ELSE IF st.p.key.end > -1
  THEN IF isWhitespace \/ isEqual
       THEN [st EXCEPT !.pos = pos]
       ELSE [st EXCEPT !.pos = pos, !.p.value.start = pos,
                       !.insideQuote = IF isQuote THEN TRUE ELSE @,
                       !.lastRune = r]
  ELSE IF st.p.key.start > -1
  THEN IF isWhitespace \/ isEqual
       THEN [st EXCEPT !.pos = pos, !.p.key.end = pos, !.lastRune = r]
       ELSE [st EXCEPT !.pos = pos, !.lastRune = r]
  ELSE IF isWhitespace
       THEN [st EXCEPT !.pos = pos]
       ELSE [st EXCEPT !.pos = pos, !.p.key.start = pos, !.lastRune = r]

RECURSIVE FileParseLoop(_, _, _, _)
FileParseLoop(line, offset, from, state) ==
  LET Iterate(i, st) ==
        IF i >= Len(line) \/ st.stop THEN st
        ELSE IF RuneAt(line, i) = "#" \/ RuneAt(line, i) = NL THEN st
        ELSE FileParseLoop(line, offset, i + RuneWidth(line, i),
                           FileParseRune(offset, i, RuneAt(line, i), st))
  IN CHOOSE res \in {Iterate(i, st) : i \in {from}, st \in {state}} : TRUE

\* What File.parseLine returns once the loop has ended in the state st.
FileParseResult(st) ==
  LET p == IF st.p.value.start > -1 /\ st.p.value.end = -1
           THEN [st.p EXCEPT !.value.end = st.pos + 1]
           ELSE IF st.p.key.start > -1 /\ st.p.key.end = -1
           THEN [st.p EXCEPT !.key.end = st.pos + 1]
           ELSE st.p
  IN [p |-> p,
      err |-> IF p.key.end > -1 /\ p.value.start = -1 THEN "ErrKeyWithoutValue"
              ELSE IF p.key.start = -1 THEN "ErrEmptyLine"
              ELSE "nil"]

\* File.parseLine: [p, err].
FileParseLine(line, offset) ==
  CHOOSE res \in
    {FileParseResult(st) : st \in {FileParseLoop(line, offset, 0, FileParseInit)}} : TRUE

\* strings.TrimLeft(line, cutset)
TrimLeft(line, cutset) ==
  LET keep == {i \in 1..Len(line) : line[i] \notin cutset} IN
  IF keep = {} THEN <<>>
  ELSE SubSeq(line, CHOOSE i \in keep : \A j \in keep : i <= j, Len(line))

\* The test of findParam on a line: the trimmed, lower-cased line begins
\* with the lower-cased key.
FileLineSelected(line, key) ==
  HasPrefix(ToLower(TrimLeft(line, FileWhitespace)), ToLower(key))

\* The loop of findParam from the line at `from` on.
RECURSIVE FileFindLoop(_, _, _)
FileFindLoop(data, key, from) ==
  LET Iterate(offset, le) ==
        LET line == ReadLine(data, offset, le)
            errRead == le = 0
            parsed == FileParseLine(line, offset)
        IN
        IF FileLineSelected(line, key) /\ parsed.err = "nil"
        THEN [found |-> TRUE, p |-> parsed.p, err |-> "nil"]
        ELSE IF errRead
        THEN [found |-> FALSE, p |-> newParam, err |-> "ErrKeyNotFound"]
        ELSE FileFindLoop(data, key, offset + Len(line))
  IN CHOOSE res \in {Iterate(offset, le) : offset \in {from},
                                             le \in {LineEnd(data, from)}} : TRUE

\* File.findParam: [found, p, err].
findParam(data, key) == FileFindLoop(data, key, 0)

\* File.Raw: [out, err, p].
FileRaw(data, key) ==
  CHOOSE res \in
    {IF f.err # "nil" THEN [out |-> <<>>, err |-> f.err, p |-> f.p]
     ELSE IF valueSize(f.p) <= 0
     THEN [out |-> <<>>, err |-> "value size is unknown", p |-> f.p]
     ELSE [out |-> Slice(data, f.p.value.start, f.p.value.start + valueSize(f.p)),
           err |-> "nil", p |-> f.p] :
       f \in {findParam(data, key)}} : TRUE

\* File.SetRaw: [data, err, p].
FileSetRaw(data, key, value) ==
  CHOOSE res \in
    {IF f.err = "ErrKeyNotFound"
     THEN [data |-> data
                      \o (IF Len(data) > 0 /\ data[Len(data)] # NL THEN <<NL>> ELSE <<>>)
                      \o key \o <<" ", "=", " ">> \o value,
           err |-> "nil", p |-> f.p]
     ELSE IF f.err # "nil" THEN [data |-> data, err |-> f.err, p |-> f.p]
     ELSE IF valueSize(f.p) <= 0
     THEN [data |-> data, err |-> "value size is unknown", p |-> f.p]
     ELSE [data |-> Slice(data, 0, f.p.value.start) \o value
                      \o Slice(data, f.p.value.start + valueSize(f.p), Len(data)),
           err |-> "nil", p |-> f.p] :
       f \in {findParam(data, key)}} : TRUE

-----------------------------------------------------------------------------
(* SpecFile: one call of findParam, Raw or SetRaw on a File.               *)

MaxFileLines == 2

FileLines ==
  {<<"a", "b", " ", "=", " ", "1">>,
   <<"a", " ", "=", " ", "2">>,
   <<" ", "A", "=", "3">>,
   <<"b", " ", "4", " ", "#", "c">>,
   <<"#", "a", " ", "=", " ", "5">>,
   <<"a">>,
   <<>>}

FileBuffers ==
  {JoinLines(ls, eol, 1) :
     ls \in UNION {[1..k -> FileLines] : k \in 0..MaxFileLines}, eol \in BOOLEAN}

FileKeys == {<<"a">>, <<"A", "B">>, <<"b">>}
FileValues == {<<"9">>, <<SQ, "x", " ", "y", SQ>>}

\* The param a call has selected, as a row of its key and its value.
ParamRow(f) ==
  IF f.err = "nil" /\ f.p.key.start > -1
  THEN [nil |-> FALSE, tokens |-> <<Token(f.p.key.start, f.p.key.end),
                                    Token(f.p.value.start, f.p.value.end)>>]
  ELSE NilRow

InitFile ==
  /\ conf \in FileBuffers
  /\ params = ConfParams
  /\ held = NilRow
  /\ last = NoCall
  /\ fault = FALSE
  /\ initial = conf
  /\ written = NoneWritten
  /\ nops = 0
  /\ arg = <<>>

FileFindParamCall(key) ==
  /\ last.op = "none"
  /\ \E f \in {findParam(conf, key)} :
       last' = [NoCall EXCEPT !.op = "findParam", !.key = key, !.before = conf,
                              !.row = ParamRow(f), !.err = f.err]
  /\ nops' = nops + 1
  /\ UNCHANGED <<conf, params, held, fault, initial, written, arg>>

FileRawCall(key) ==
  /\ last.op = "none"
  /\ \E r \in {FileRaw(conf, key)} :
       last' = [NoCall EXCEPT !.op = "Raw", !.key = key, !.before = conf,
                              !.row = ParamRow(r), !.err = r.err, !.out = r.out]
  /\ nops' = nops + 1
  /\ UNCHANGED <<conf, params, held, fault, initial, written, arg>>

FileSetRawCall(key, value) ==
  /\ last.op = "none"
  /\ \E r \in {FileSetRaw(conf, key, value)} :
       /\ conf' = r.data
       /\ last' = [NoCall EXCEPT !.op = "SetRaw", !.key = key, !.value = value,
                                 !.before = conf, !.row = ParamRow(r), !.err = r.err]
  /\ nops' = nops + 1
  /\ UNCHANGED <<params, held, fault, initial, written, arg>>

NextFile ==
  \/ \E key \in FileKeys : FileFindParamCall(key)
  \/ \E key \in FileKeys : FileRawCall(key)
  \/ \E key \in FileKeys, value \in FileValues : FileSetRawCall(key, value)

SpecFile == InitFile /\ [][NextFile]_vars

\* The key name of the line a call has selected.
SelectedKey == Slice(last.before, last.row.tokens[1].Start, last.row.tokens[1].End)

\* The offsets of the lines whose key name begins with the key of the call
\* and is longer than it.
LongerKeyLines ==
  {o \in LineStarts(last.before) :
     \E pr \in {FileParseLine(LineAt(last.before, o), o)} :
       /\ pr.p.key.start > -1 /\ pr.p.key.end > -1
       /\ \E name \in {ToLower(Slice(last.before, pr.p.key.start, pr.p.key.end))} :
            /\ Len(name) > Len(last.key)
            /\ HasPrefix(name, ToLower(last.key))}

\* C19: findParam, and so Raw and SetRaw, select a line whose key name is the
\* given key (compared without case), never a line whose longer key name
\* only begins with it: no value of such a line is read, and SetRaw leaves
\* every such line as it was.
C19_WholeKey ==
  last.op \in {"findParam", "Raw", "SetRaw"} =>
    /\ ~last.row.nil => ToLower(SelectedKey) = ToLower(last.key)
    /\ \A o \in LongerKeyLines :
         /\ ~last.row.nil => ~(o <= last.row.tokens[2].Start
                                /\ last.row.tokens[2].Start < o + Len(LineAt(last.before, o)))
         /\ last.op = "SetRaw" => LineAt(conf, o) = LineAt(last.before, o)

-----------------------------------------------------------------------------
(* Empty lines and open quotes (SpecParse) *)

\* The part of the line parseLine scans: up to its first comment character
\* or line terminator.
Scanned(p, line) ==
  LET stops == {i \in 1..Len(line) : line[i] = p.InlineComment \/ line[i] = NL} IN
  IF stops = {} THEN line ELSE SubSeq(line, 1, Min(stops) - 1)

Blank(p, text) == \A i \in 1..Len(text) : text[i] \in p.Whitespace

\* The text holds one quote character in all, and no backslash before it:
\* the quoted value it opens is never closed.
OpenQuote(p, text) ==
  \E j \in 1..Len(text) :
    /\ text[j] \in p.Quotes
    /\ \A i \in 1..Len(text) : text[i] \in p.Quotes => i = j
    /\ j > 1 => text[j - 1] # BS

\* C20: parseLine fails with ErrEmptyLine exactly when the line has no
\* non-whitespace character before its first comment character or its end.
\* Otherwise it returns, without error, a row of at least one token, whatever
\* the quotes; a quoted value that is never closed runs to the end of the
\* scanned part of the line.
C20_EmptyLine ==
  last.op = "parseLine" =>
    \E text \in {Scanned(params, TestLine)} :
      /\ last.err = "ErrEmptyLine" <=> Blank(params, text)
      /\ ~Blank(params, text) => (last.err = "nil" /\ ColCount(last.row) >= 1)
      /\ OpenQuote(params, text) =>
           last.row.tokens[ColCount(last.row)].End = Len(FirstLine) + Len(text)

-----------------------------------------------------------------------------
(* SpecScan: parseLine on a buffer of one line of letters, blanks, quotes   *)
(* and backslashes, with the iterations of its loop recorded.              *)

MaxScanLen == 5

ScanBytes == {"a", " ", SQ, DQ, BS}

InitScan ==
  /\ conf \in Strings(ScanBytes, MaxScanLen)
  /\ params \in Dialects \cup {PlainParams}
  /\ held = NilRow
  /\ last = NoCall
  /\ fault = FALSE
  /\ initial = conf
  /\ written = NoneWritten
  /\ nops = 0
  /\ arg = <<>>

\* parseLine(conf, 0); written holds the iterations of its loop.
ScanCall ==
  /\ last.op = "none"
  /\ \E pr \in {parseLine(params, conf, 0)} :
       /\ held' = pr.row
       /\ last' = [NoCall EXCEPT !.op = "parseLine", !.row = pr.row, !.err = pr.err]
  /\ written' = ParseSteps(params, conf, 0, 0, [ParseInit EXCEPT !.expectedQuote = params.Quotes])
  /\ nops' = nops + 1
  /\ UNCHANGED <<conf, params, fault, initial, arg>>

NextScan == ScanCall

SpecScan == InitScan /\ [][NextScan]_vars

\* The iteration e is inside a column, in a quoted section.
InSection(e) == e.before.start > -1 /\ e.before.insideQuote

\* The iteration e is inside a column, outside quotes.
OutsideQuotes(e) == e.before.start > -1 /\ ~e.before.insideQuote

\* The rune of iteration e is a quote character with a backslash before it,
\* in a dialect with backslash escaping.
AfterBackslash(p, line, e) == p.BackslashEscapedQuotes /\ e.i > 0 /\ line[e.i] = BS

\* C21: once a quote character opens a quoted section only that character
\* closes it; until then whitespace and the other quote characters are data
\* and do not end the column.  Once the section is closed any quote
\* character opens a new one in the same column, and whitespace closes a
\* column only outside quotes.
C21_QuoteTracking ==
  last.op = "parseLine" =>
    \A k \in 1..Len(written) :
      \E e \in {written[k]} :
        \* a quote character that starts a column opens a section of its own
        /\ (e.before.start = -1 /\ e.r \in params.Quotes) =>
             (e.after.insideQuote /\ e.after.expectedQuote = {e.r} /\ e.after.start = e.i)
        \* in a section: the opener stays the only closing character
        /\ InSection(e) =>
             /\ \E q \in params.Quotes : e.before.expectedQuote = {q}
             /\ e.r \notin e.before.expectedQuote =>
                  /\ e.after.insideQuote
                  /\ e.after.expectedQuote = e.before.expectedQuote
             /\ e.after.start = e.before.start
             /\ e.after.tokens = e.before.tokens
             /\ ~e.after.insideQuote => e.after.expectedQuote = params.Quotes
        \* outside quotes: any quote character opens a section in the column
        /\ (OutsideQuotes(e) /\ e.r \in params.Quotes /\ ~AfterBackslash(params, conf, e)) =>
             /\ e.after.insideQuote
             /\ e.after.expectedQuote = {e.r}
             /\ e.after.start = e.before.start
             /\ e.after.tokens = e.before.tokens
        \* a column is closed by whitespace outside quotes, and by nothing else
        /\ (OutsideQuotes(e) /\ e.r \in params.Whitespace) =>
             /\ e.after.tokens = Append(e.before.tokens, Token(e.before.start, e.i))
             /\ e.after.start = -1
        /\ e.after.tokens # e.before.tokens =>
             (OutsideQuotes(e) /\ e.r \in params.Whitespace)

\* ' opens, " and the blank are data, ' closes, " opens a section in the
\* same column: one column over the five bytes.
C21_Witness ==
  /\ last.op = "parseLine"
  /\ conf = <<SQ, DQ, " ", SQ, DQ>>
  /\ last.row.tokens = <<Token(0, 5)>>
  /\ Len(written) = 5
  /\ written[4].before.insideQuote /\ ~written[4].after.insideQuote
  /\ written[5].after.insideQuote /\ written[5].after.expectedQuote = {DQ}

\* The rune of iteration e has exactly one backslash before it: a backslash
\* that has no backslash before itself.
AfterSingleBackslash(line, e) ==
  /\ e.i > 0 /\ line[e.i] = BS
  /\ ~(e.i > 1 /\ line[e.i - 1] = BS)

\* C22: with BackslashEscapedQuotes a quote character matching the active
\* quote leaves insideQuote as it is exactly when a single backslash (one
\* not preceded by a backslash itself) comes right before it, and toggles it
\* otherwise; without the flag the quote always toggles.
C22_BackslashEscape ==
  last.op = "parseLine" =>
    \A k \in 1..Len(written) :
      \E e \in {written[k]} :
        e.r \in e.before.expectedQuote =>
          IF params.BackslashEscapedQuotes /\ AfterSingleBackslash(conf, e)
          THEN e.after.insideQuote = e.before.insideQuote
          ELSE e.after.insideQuote = ~e.before.insideQuote

-----------------------------------------------------------------------------
(* SpecStale: a caller keeps the rows of up to MaxStaleRows lookups, edits  *)
(* a column of one of them with SetRaw and then reads a column of a kept   *)
(* row with Raw.  written holds the kept rows.                             *)

MaxStaleRows == 2

StaleBuffers ==
  {<<"a", " ", "1", NL, "b", " ", "2", "2", NL>>,
   <<"b", " ", "2", "2", NL, "a", " ", "1">>,
   <<"a", " ", "1", " ", "2", "2">>}

StaleKeys == {<<"a">>, <<"b">>}
StaleColumns == {0, 1, 2}
StaleValues == {<<"z">>, <<"y", "y">>, <<"w", "w", "w">>}

InitStale ==
  /\ conf \in StaleBuffers
  /\ params \in Dialects
  /\ held = NilRow
  /\ last = NoCall
  /\ fault = FALSE
  /\ initial = conf
  /\ written = <<>>
  /\ nops = 0
  /\ arg = <<>>

StaleLookupCall(key) ==
  /\ last.op \in {"none", "LookupRow"}
  /\ nops < MaxStaleRows
  /\ \E r \in {LookupRow(conf, params, 0, key, FALSE, 0)} :
       /\ last' = [NoCall EXCEPT !.op = "LookupRow", !.key = key, !.before = conf,
                                 !.row = r.row, !.next = r.next, !.err = r.err]
       /\ held' = r.row
       /\ written' = IF r.err = "nil" THEN Append(written, r.row) ELSE written
       /\ fault' = r.fault
  /\ nops' = nops + 1
  /\ UNCHANGED <<conf, params, initial, arg>>

\* c.SetRaw(rows[k], col, value)
StaleSetRawCall(k, col, value) ==
  /\ last.op = "LookupRow"
  /\ k \in 1..Len(written)
  /\ \E r \in {SetRaw(conf, written[k], col, value)} :
       /\ conf' = r.conf
       /\ fault' = r.fault
       /\ last' = [NoCall EXCEPT !.op = "SetRaw", !.col = col, !.value = value,
                                 !.before = conf, !.row = written[k], !.err = r.err]
  /\ held' = written[k]
  /\ nops' = nops + 1
  /\ UNCHANGED <<params, initial, written, arg>>

\* c.Raw(rows[j], col) after the edit; the record keeps the edit (row, col,
\* value, before) and adds the row read (next), its column (offset) and the
\* result.
StaleRawCall(j, col) ==
  /\ last.op = "SetRaw" /\ last.err = "nil" /\ ~fault
  /\ j \in 1..Len(written)
  /\ \E r \in {Raw(conf, written[j], col)} :
       /\ last' = [last EXCEPT !.op = "Raw", !.next = j, !.offset = col,
                               !.err = r.err, !.out = r.out]
       /\ fault' = r.fault
  /\ nops' = nops + 1
  /\ UNCHANGED <<conf, params, held, initial, written, arg>>

NextStale ==
  \/ \E key \in StaleKeys : StaleLookupCall(key)
  \/ \E k \in 1..MaxStaleRows, col \in StaleColumns, value \in StaleValues :
       StaleSetRawCall(k, col, value)
  \/ \E j \in 1..MaxStaleRows, col \in StaleColumns : StaleRawCall(j, col)

SpecStale == InitStale /\ [][NextStale]_vars

\* The rows parseLine gives for the lines of buf.
RowsOf(buf, p) == {RowAt(buf, p, o).row : o \in LineStarts(buf)}

\* The byte at offset x of the text after value has replaced [s, e) of old,
\* for x >= s.
ByteAfterEdit(old, s, e, value, x) ==
  IF x < s + Len(value) THEN value[x - s + 1]
  ELSE old[x - (Len(value) - (e - s)) + 1]

\* C23: SetRaw changes no row: the kept rows, the edited one among them,
\* keep the offsets they were returned with.  After an edit that changes the
\* length of the value, Raw on a token that ends before the replaced range
\* gives the text it gave before, and Raw on a token that starts after the
\* replaced range reads its old offsets in the new text: the bytes the
\* length difference has shifted there.
C23_Staleness ==
  /\ \A k \in 1..Len(written) : written[k] \in RowsOf(initial, params)
  /\ last.op \in {"SetRaw", "Raw"} => last.row \in RowsOf(initial, params)
  /\ (last.op = "Raw" /\ last.err = "nil" /\ ~fault) =>
       \E te \in {last.row.tokens[last.col + 1]},
          tr \in {written[last.next].tokens[last.offset + 1]} :
         (Len(last.value) # te.End - te.Start) =>
           /\ tr.End <= te.Start => last.out = Slice(last.before, tr.Start, tr.End)
           /\ tr.Start >= te.End =>
                last.out = [i \in 1..(tr.End - tr.Start) |->
                              ByteAfterEdit(last.before, te.Start, te.End, last.value,
                                            tr.Start + i - 1)]

\* "a 1\nb 22\n": the value of a becomes www; the kept row of b still has
\* its value at [6, 8), where the text now holds "b ".
C23_Witness ==
  /\ last.op = "Raw" /\ last.err = "nil" /\ ~fault
  /\ last.before = <<"a", " ", "1", NL, "b", " ", "2", "2", NL>>
  /\ conf = <<"a", " ", "w", "w", "w", NL, "b", " ", "2", "2", NL>>
  /\ written[last.next].tokens = <<Token(4, 5), Token(6, 8)>>
  /\ last.offset = 1
  /\ last.out = <<"b", " ">>

\* The same edit: the key of the edited row, before the replaced range,
\* reads as before.
C23_WitnessBefore ==
  /\ last.op = "Raw" /\ last.err = "nil" /\ ~fault
  /\ conf = <<"a", " ", "w", "w", "w", NL, "b", " ", "2", "2", NL>>
  /\ written[last.next] = last.row
  /\ last.offset = 0
  /\ last.out = <<"a">>

-----------------------------------------------------------------------------
(* SpecGeometry: the rows LookupRow and Append return.  The buffer is a     *)
(* line of key a and up to MaxGeometryLen further bytes, at the start of   *)
(* the text or after a first line.                                         *)

MaxGeometryLen == 3

GeometryBytes == {" ", "1", SQ, "#", NL, LeadByte, ContByte}

GeometryRows ==
  {<<<<"k">>>>,
   <<<<"k">>, <<"v">>>>,
   <<<<"k", NL, "v">>>>,
   <<<<" ", "k">>, <<SQ, NL>>>>,
   <<<<SQ, "v", " ">>>>,
   <<<<LeadByte, ContByte>>>>,
   <<<<"k">>, <<LeadByte, ContByte>>>>,
   <<<<"#">>>>}

InitGeometry ==
  /\ \E first \in {<<>>, FirstLine}, rest \in Strings(GeometryBytes, MaxGeometryLen) :
       conf = first \o <<"a">> \o rest
  /\ params \in Dialects
  /\ held = NilRow
  /\ last = NoCall
  /\ fault = FALSE
  /\ initial = conf
  /\ written = NoneWritten
  /\ nops = 0
  /\ arg = <<>>

\* row, next, err := c.LookupRow(0, "a", false, offset)
GeometryLookupCall(offset) ==
  /\ last.op = "none"
  /\ offset <= Len(conf)
  /\ \E r \in {LookupRow(conf, params, 0, <<"a">>, FALSE, offset)} :
       /\ last' = [NoCall EXCEPT !.op = "LookupRow", !.key = <<"a">>, !.before = conf,
                                 !.offset = offset, !.row = r.row, !.next = r.next,
                                 !.err = r.err]
       /\ held' = r.row
       /\ fault' = r.fault
  /\ nops' = nops + 1
  /\ UNCHANGED <<conf, params, initial, written, arg>>

\* row, err := c.Append(values...)
GeometryAppendCall(values) ==
  /\ last.op = "none"
  /\ \E r \in {AppendRow(conf, params, values)} :
       /\ conf' = r.conf
       /\ held' = r.row
       /\ last' = [NoCall EXCEPT !.op = "Append", !.before = conf, !.row = r.row,
                                 !.err = r.err]
  /\ written' = values
  /\ nops' = nops + 1
  /\ UNCHANGED <<params, fault, initial, arg>>

NextGeometry ==
  \/ \E offset \in {0, Len(FirstLine)} : GeometryLookupCall(offset)
  \/ \E values \in GeometryRows : GeometryAppendCall(values)

SpecGeometry == InitGeometry /\ [][NextGeometry]_vars

\* The tokens of row lie in [o, o + n), in order, apart, and hold no line
\* terminator of buf.
WellFormed(row, buf, o, n) ==
  /\ ~row.nil
  /\ Len(row.tokens) >= 1
  /\ \A i \in 1..Len(row.tokens) :
       \E t \in {row.tokens[i]} :
         /\ t.Start # -1 /\ t.End # -1
         /\ o <= t.Start /\ t.Start < t.End /\ t.End <= o + n
         /\ \A x \in t.Start..(t.End - 1) : buf[x + 1] # NL
  /\ \A i \in 1..(Len(row.tokens) - 1) : row.tokens[i].End < row.tokens[i + 1].Start

\* The start of the line of buf that holds offset x, for a reader that
\* started at offset from.
LineStartBefore(buf, from, x) ==
  Max({from} \cup {i \in Terminators(buf) : from < i /\ i <= x})

\* C24: a row that LookupRow or Append returns for a line starting at
\* offset o has at least one token; every token has o <= Start < End <=
\* o + len(line) and neither offset is -1; each token ends before the next
\* one starts, with at least one byte between them; no token holds the line
\* terminator.
C24_TokenGeometry ==
  /\ (last.op = "LookupRow" /\ last.err = "nil" /\ ~fault) =>
       /\ ~last.row.nil /\ Len(last.row.tokens) >= 1
       /\ \E o \in {LineStartBefore(conf, last.offset, last.row.tokens[1].Start)} :
            /\ WellFormed(last.row, conf, o, Len(LineAt(conf, o)))
            /\ last.next = o + Len(LineAt(conf, o))
  /\ (last.op = "Append" /\ last.err = "nil") =>
       \E line \in {Joined(written, params.DefaultDelim)} :
         WellFormed(last.row, conf, Len(conf) - Len(line), Len(line))

\* "x\na 1'" read from offset 2: the columns [2, 3) and [4, 6).
C24_Witness ==
  /\ last.op = "LookupRow" /\ last.err = "nil"
  /\ last.offset = 2
  /\ conf = <<"x", NL, "a", " ", "1", SQ>>
  /\ last.row.tokens = <<Token(2, 3), Token(4, 6)>>

\* Append("k\nv") to "a": the row holds k alone, at [2, 3).
C24_WitnessAppend ==
  /\ last.op = "Append" /\ last.err = "nil"
  /\ conf = <<"a", NL, "k", NL, "v">>
  /\ last.row.tokens = <<Token(2, 3)>>

\* The Raw call read the column that the SetRaw call before it has written,
\* through the same row.
ReadsEditedColumn ==
  /\ last.op = "Raw"
  /\ written[last.next] = last.row
  /\ last.offset = last.col

\* C25 (as stated): after SetRaw(row, col, v) has succeeded with a non-empty
\* v of any length, Raw(row, col) on the same row returns exactly v.
C25_ReadAfterWrite ==
  ReadsEditedColumn => (~fault /\ last.err = "nil" /\ last.out = last.value)

\* C25 (amended): the row keeps the range of the old value, so Raw(row, col)
\* returns the bytes the text now holds in that range: v when v is as long
\* as the old value, the first bytes of v when v is longer, v and the bytes
\* after it when v is shorter; in the last case the call aborts when the
\* range passes the end of the text.
C25_ReadAfterWriteOldRange ==
  ReadsEditedColumn =>
    \E t \in {last.row.tokens[last.col + 1]} :
      \E size \in {t.End - t.Start} :
        /\ Len(last.value) >= size =>
             (~fault /\ last.err = "nil" /\ last.out = SubSeq(last.value, 1, size))
        /\ Len(last.value) < size =>
             \E d \in {size - Len(last.value)} :
               /\ fault <=> t.End + d > Len(last.before)
               /\ ~fault =>
                    /\ last.err = "nil"
                    /\ last.out = last.value \o SubSeq(last.before, t.End + 1, t.End + d)

\* "a 1\nb 22\n": the value 1 of a becomes www and Raw on the same row
\* returns w.
C25_Witness ==
  /\ ReadsEditedColumn
  /\ conf = <<"a", " ", "w", "w", "w", NL, "b", " ", "2", "2", NL>>
  /\ last.value = <<"w", "w", "w">>
  /\ last.out = <<"w">>

\* The value 22 of b becomes yy and Raw on the same row returns yy.
C25_WitnessSameLength ==
  /\ ReadsEditedColumn
  /\ last.value = <<"y", "y">>
  /\ last.out = <<"y", "y">>
  /\ conf = <<"a", " ", "1", NL, "b", " ", "y", "y", NL>>

-----------------------------------------------------------------------------
(* hba.AppendEntry *)

\* AppendEntry: [row, err, conf].
AppendEntry(buf, p, args) ==
  IF \E i \in 1..Len(args) : TrimSpace(args[i]) = <<>>
  THEN [row |-> NilRow, err |-> "ErrEmptyArgument", conf |-> buf]
  ELSE AppendRow(buf, p, args)

-----------------------------------------------------------------------------
(* SpecErrors: one mutating call of the generic, conf or hba package, with *)
(* keys and values that make some of the calls fail.                       *)

ErrorBuffers ==
  {<<>>,
   <<"a", " ", "=", " ", "1">>,
   <<"a", " ", "=", " ", "1", NL>>,
   <<"a", NL>>}

ErrorKeys == {<<"a">>, <<"k">>, <<>>, <<"#", "k">>}
ErrorValues == {<<"v">>, <<"#">>}
ErrorRows == {<<>>, <<<<>>>>, <<<<"#">>>>, <<<<"k">>, <<"v">>>>}
ErrorColumns == {0, 1, 5}

\* The five arguments of AppendEntry: x everywhere but at one place.
ErrorEntries ==
  {[i \in 1..5 |-> IF i = k THEN v ELSE <<"x">>] :
     k \in 1..5, v \in {<<"x">>, <<>>, <<" ">>, <<"#">>}}

InitErrors ==
  /\ conf \in ErrorBuffers
  /\ params \in Dialects
  /\ held = NilRow
  /\ last = NoCall
  /\ fault = FALSE
  /\ initial = conf
  /\ written = NoneWritten
  /\ nops = 0
  /\ arg = <<>>

\* The row of the first line holding the key a, or no row.
ErrorRow == LookupRow(conf, params, 0, <<"a">>, TRUE, 0).row

ErrAppendCall(values) ==
  /\ last.op = "none"
  /\ \E r \in {AppendRow(conf, params, values)} :
       Mutated("Append", <<>>, <<>>, [err |-> r.err, fault |-> FALSE, conf |-> r.conf])

ErrSetRawCall(col, value) ==
  /\ last.op = "none"
  /\ \E row \in {ErrorRow} : Mutated("SetRaw", <<>>, value, SetRaw(conf, row, col, value))

ErrSetStringCall(col, value) ==
  /\ last.op = "none"
  /\ \E row \in {ErrorRow} :
       Mutated("SetString", <<>>, value, SetString(conf, params, row, col, value))

ErrSetKCall(key, value) ==
  /\ last.op = "none"
  /\ params = ConfParams
  /\ \/ Mutated("SetRawK", key, value, SetRawK(conf, params, key, value))
     \/ Mutated("SetStringK", key, value, SetStringK(conf, params, key, value))
     \/ Mutated("SetIntK", key, <<>>, SetIntK(conf, params, key, Len(value)))
     \/ Mutated("SetInt64K", key, <<>>, SetInt64K(conf, params, key, Len(value)))
     \/ Mutated("SetFloat64K", key, <<>>, SetFloat64K(conf, params, key, Len(value)))
     \/ Mutated("SetTrueFalseK", key, <<>>, SetTrueFalseK(conf, params, key, value = <<"v">>))
     \/ Mutated("SetOnOffK", key, <<>>, SetOnOffK(conf, params, key, value = <<"v">>))
     \/ Mutated("SetYesNoK", key, <<>>, SetYesNoK(conf, params, key, value = <<"v">>))

ErrAppendEntryCall(args) ==
  /\ last.op = "none"
  /\ params = HbaParams
  /\ \E r \in {AppendEntry(conf, params, args)} :
       Mutated("AppendEntry", <<>>, <<>>, [err |-> r.err, fault |-> FALSE, conf |-> r.conf])

NextErrors ==
  \/ \E values \in ErrorRows : ErrAppendCall(values)
  \/ \E col \in ErrorColumns, value \in ErrorValues : ErrSetRawCall(col, value)
  \/ \E col \in ErrorColumns, value \in ErrorValues : ErrSetStringCall(col, value)
  \/ \E key \in ErrorKeys, value \in ErrorValues : ErrSetKCall(key, value)
  \/ \E args \in ErrorEntries : ErrAppendEntryCall(args)

SpecErrors == InitErrors /\ [][NextErrors]_vars

\* C26: a mutating call (Append, SetRaw, SetString; SetRawK, SetStringK and
\* the other SetXxxK; AppendEntry) that returns an error leaves the buffer
\* byte for byte as it was before the call.
C26_ErrorsKeepBuffer ==
  (last.op # "none" /\ last.err # "nil") => conf = last.before

-----------------------------------------------------------------------------
(* SpecSearch: the searches one iteration at a time.  A step is one pass of *)
(* the loop of LookupRow (one line read), run either by a single LookupRow  *)
(* from any start offset or by the loops of hba.LookupAll and conf.LookupKey,*)
(* which call LookupRow again from the offset it returned.  `arg` is the    *)
(* position of the caller (idle, scan, done), last.offset the offset of the *)
(* line to read next, nops the start offset of the running LookupRow call,  *)
(* written the returns of the LookupRow calls so far, held the row          *)
(* LookupKey keeps.                                                        *)

MaxSearchLines == 3
SearchLines == {<<>>, <<"b">>, <<"A", " ", "1">>}

SearchBuffers ==
  {Joined(ls, <<NL>>) \o t : ls \in Strings(SearchLines, MaxSearchLines), t \in {<<>>, <<NL>>}}

SearchKeys == {<<"a">>, <<"1">>}
SearchCallers == {"LookupRow", "LookupAll", "LookupKey"}

\* endOfLine := offset + len(line)
EndOfLineAtOffset(offset, line) == offset

EndOfLine(offset, line) == offset + Len(line)

InitSearch ==
  /\ conf \in SearchBuffers
  /\ params \in Dialects
  /\ held = NilRow
  /\ last = NoCall
  /\ fault = FALSE
  /\ initial = conf
  /\ written = NoneWritten
  /\ nops = 0
  /\ arg = "idle"

\* The call: LookupRow(kcol, key, TRUE, start), or LookupAll(kcol, key), or
\* LookupKey(key), which start at offset 0 and use keyCol.
SearchCall(caller, kcol, key, start) ==
  /\ arg = "idle"
  /\ caller = "LookupRow" \/ start = 0
  /\ caller = "LookupKey" => (kcol = keyCol /\ params = ConfParams)
  /\ caller = "LookupAll" => params = HbaParams
  /\ arg' = "scan"
  /\ nops' = start
  /\ last' = [NoCall EXCEPT !.op = caller, !.key = key, !.col = kcol, !.offset = start]
  /\ UNCHANGED <<conf, params, held, fault, initial, written>>

\* What the caller does with the return of LookupRow.
SearchReturn(row, next, err) ==
  /\ written' = Append(written, [start |-> nops, row |-> row, next |-> next, err |-> err])
  /\ IF last.op = "LookupRow"
     THEN /\ arg' = "done"
          /\ last' = [last EXCEPT !.row = row, !.next = next, !.err = err]
          /\ UNCHANGED <<held, nops>>
     ELSE IF err # "nil"
     THEN /\ arg' = "done"
          /\ last' = [last EXCEPT
               !.err = IF last.op = "LookupAll"
                       THEN (IF \E i \in 1..Len(written) : written[i].err = "nil"
                             THEN "nil" ELSE "ErrKeyNotFound")
                       ELSE (IF held.nil THEN "ErrKeyNotFound" ELSE "nil"),
               !.row = IF last.op = "LookupKey" THEN held ELSE NilRow]
          /\ UNCHANGED <<held, nops>>
     ELSE /\ arg' = "scan"
          /\ nops' = next
          /\ last' = [last EXCEPT !.offset = next, !.next = next]
          /\ held' = IF last.op = "LookupKey" /\ HasColumn(row, valueCol) THEN row ELSE held

\* One pass of the loop of LookupRow at last.offset.
ScanLine ==
  /\ arg = "scan"
  /\ \E le \in {LineEnd(conf, last.offset)} :
     \E line \in {ReadLine(conf, last.offset, le)} :
     \E pr \in {parseLine(params, line, last.offset)} :
     \E rk \in {Raw(conf, pr.row, last.col)} :
       IF pr.err = "nil" /\ HasColumn(pr.row, last.col) /\ KeyMatches(rk, last.key, TRUE)
       THEN SearchReturn(pr.row, EndOfLine(last.offset, line), "nil")
       ELSE IF le = 0
       THEN SearchReturn(NilRow, 0, "ErrKeyNotFound")
       ELSE /\ last' = [last EXCEPT !.offset = EndOfLine(last.offset, line)]
            /\ UNCHANGED <<held, written, nops, arg>>
  /\ UNCHANGED <<conf, params, fault, initial>>

NextSearch ==
  \/ \E caller \in SearchCallers, kcol \in {0, 1}, key \in SearchKeys, start \in 0..Len(conf) :
       SearchCall(caller, kcol, key, start)
  \/ ScanLine

\* The loop is sequential code: a pass that can run does run.
SpecSearch == InitSearch /\ [][NextSearch]_vars /\ WF_vars(ScanLine)

\* Every successful LookupRow so far resumed after its start offset and
\* within the buffer.
SearchProgress ==
  \A i \in 1..Len(written) :
    written[i].err = "nil" =>
      (written[i].next > written[i].start /\ written[i].next <= Len(conf))

\* C27: from every start offset in [0, len(buffer)] LookupRow terminates and,
\* on success, returns a resume offset greater than the start offset and at
\* most len(buffer); LookupAll and LookupKey, which call it again from the
\* returned offset, terminate as well.
C27_SearchTerminates ==
  /\ []SearchProgress
  /\ (arg = "scan") ~> (arg = "done")

\* LookupAll has ended after two successful LookupRow calls and a failed one.
C27_Witness ==
  /\ arg = "done"
  /\ last.op = "LookupAll"
  /\ last.err = "nil"
  /\ Len(written) = 3
  /\ written[2].start = written[1].next
  /\ written[3].start = written[2].next

-----------------------------------------------------------------------------
(* Dequote after Quote on every value (SpecQuote). *)

\* A backslash stands immediately before the quote character `quote`.
BackslashBeforeQuote(value, quote) ==
  \E i \in 1..(Len(value) - 1) : value[i] = BS /\ value[i + 1] = quote

\* C29: under each built-in dialect Dequote(Quote(v)) is v for every value v,
\* also one with quote characters, backslashes, or a backslash immediately
\* before a quote character.
C29_LeftInverse ==
  last.op = "DequoteQuoted" => last.out = arg

-----------------------------------------------------------------------------
(* SpecRound: conf.SetStringK of a value, then conf.StringK of the same key. *)

MaxRoundLen == 2

RoundBuffers ==
  {<<>>,
   <<"k", " ", "=", " ", "1">>,
   <<"k", " ", "=", " ", "1", " ", "#", "c", NL>>,
   <<"k", "=", SQ, "x", SQ, " ", " ", NL, "b", " ", "=", " ", "2", NL>>}

RoundKeys == {<<"k">>, <<"n">>}
RoundBytes == {"v", " ", SQ, BS, "#"}

InitRound ==
  /\ conf \in RoundBuffers
  /\ params = ConfParams
  /\ held = NilRow
  /\ last = NoCall
  /\ fault = FALSE
  /\ initial = conf
  /\ written = NoneWritten
  /\ nops = 0
  /\ arg = <<>>

RoundSetStringKCall(key, value) ==
  /\ last.op = "none"
  /\ Mutated("SetStringK", key, value, SetStringK(conf, params, key, value))

RoundStringKCall ==
  /\ last.op = "SetStringK" /\ last.err = "nil" /\ ~fault
  /\ \E r \in {StringK(conf, params, last.key)} :
       /\ last' = [last EXCEPT !.op = "StringK", !.err = r.err, !.out = r.out]
       /\ fault' = r.fault
  /\ nops' = nops + 1
  /\ UNCHANGED <<conf, params, held, initial, written, arg>>

NextRound ==
  \/ \E key \in RoundKeys, value \in Strings(RoundBytes, MaxRoundLen) :
       RoundSetStringKCall(key, value)
  \/ RoundStringKCall

SpecRound == InitRound /\ [][NextRound]_vars

\* C28: after conf.SetStringK(key, v) succeeds for a key that is one token
\* and a value v without line terminators (empty, or with whitespace, quote
\* characters, backslashes or the comment character), conf.StringK(key)
\* returns exactly v, whatever follows the value on the edited line.
C28_RoundTrip ==
  last.op = "StringK" => (last.err = "nil" /\ ~fault /\ last.out = last.value)

-----------------------------------------------------------------------------
(* SpecEntry: hba.AppendEntry, then String on a column of the row it       *)
(* returned, or LookupAll on a column with the argument given for it.      *)
(* `arg` keeps the five arguments.                                         *)

EntryBuffers ==
  {<<>>,
   <<"l", "\t", "d", "\t", "u", "\t", "z", "\t", "m">>,
   <<"l", "\t", "d", "\t", "u", "\t", "z", "\t", "m", NL>>}

EntryDefault == <<<<"h">>, <<"d">>, <<"u">>, <<"z">>, <<"m">>>>

EntryValues ==
  {<<>>, <<" ">>, <<"x", " ", "y">>, <<SQ>>, <<DQ, "x", DQ>>, <<"#", "c">>,
   <<"x", "#">>, <<"x", "y">>, <<LeadByte, ContByte>>}

\* The arguments: the default ones, or one of them replaced.
EntryArguments ==
  {EntryDefault} \cup {[EntryDefault EXCEPT ![k] = v] : k \in 1..5, v \in EntryValues}

InitEntry ==
  /\ conf \in EntryBuffers
  /\ params = HbaParams
  /\ held = NilRow
  /\ last = NoCall
  /\ fault = FALSE
  /\ initial = conf
  /\ written = NoneWritten
  /\ nops = 0
  /\ arg = <<>>

EntryAppendCall(args) ==
  /\ last.op = "none"
  /\ \E r \in {AppendEntry(conf, params, args)} :
       /\ conf' = r.conf
       /\ last' = [NoCall EXCEPT !.op = "AppendEntry", !.before = conf,
                                 !.row = r.row, !.err = r.err]
       /\ held' = r.row
  /\ arg' = args
  /\ nops' = nops + 1
  /\ UNCHANGED <<params, fault, initial, written>>

EntryStringCall(col) ==
  /\ last.op = "AppendEntry" /\ last.err = "nil"
  /\ \E r \in {String(conf, params, held, col)} :
       /\ last' = [last EXCEPT !.op = "String", !.col = col, !.err = r.err, !.out = r.out]
       /\ fault' = r.fault
  /\ nops' = nops + 1
  /\ UNCHANGED <<conf, params, held, initial, written, arg>>

EntryLookupAllCall(col) ==
  /\ last.op = "AppendEntry" /\ last.err = "nil"
  /\ \E r \in {LookupAll(conf, params, col, arg[col + 1])} :
       /\ last' = [last EXCEPT !.op = "LookupAll", !.col = col, !.key = arg[col + 1],
                               !.err = r.err]
       /\ written' = r.rows
  /\ nops' = nops + 1
  /\ UNCHANGED <<conf, params, held, fault, initial, arg>>

NextEntry ==
  \/ \E args \in EntryArguments : EntryAppendCall(args)
  \/ \E col \in 0..4 : EntryStringCall(col)
  \/ \E col \in 0..4 : EntryLookupAllCall(col)

SpecEntry == InitEntry /\ [][NextEntry]_vars

\* strings.TrimSpace(value) == "" for one of the arguments.
BlankArgument(args) == \E i \in 1..Len(args) : TrimSpace(args[i]) = <<>>

\* The offset at which the appended line starts.
EntryLineStart == Len(EnsureEndsWithEOL(last.before))

\* C30: AppendEntry with five arguments, none blank, succeeds and returns a
\* row of exactly five columns; String on column i of that row is argument
\* i; LookupAll on column i with argument i finds the appended line.  With
\* a blank argument AppendEntry returns ErrEmptyArgument.
C30_AppendEntry ==
  /\ (last.op = "AppendEntry" /\ BlankArgument(arg)) => last.err = "ErrEmptyArgument"
  /\ (last.op \in {"AppendEntry", "String", "LookupAll"} /\ ~BlankArgument(arg)) =>
       (last.err = "nil" /\ ~fault /\ ColCount(held) = 5)
  /\ last.op = "String" => last.out = arg[last.col + 1]
  /\ last.op = "LookupAll" =>
       \E i \in 1..Len(written) : written[i].tokens[1].Start >= EntryLineStart

====
